---- MODULE Spec2Model ----
(***************************************************************************)
(* Model of mcvqoe.intelligibility.measure: the capture loop of run(), the *)
(* write-ahead CSV, load_test_data, process_audio and post_process, and    *)
(* the reprocess entry point.                                              *)
(*                                                                         *)
(* Text is modelled as a sequence of one-character strings, so formatting  *)
(* and parsing are computed character by character.  A Python value is a   *)
(* record [ty, v] whose tag ty is its Python type.  A float score is kept  *)
(* as its numerator over ScoreDen.                                         *)
(***************************************************************************)
EXTENDS Integers, Sequences, FiniteSets, TLC

(* ------------------------------ bounds -------------------------------- *)
MaxLabels == 2      \* longest tuple of channel labels given to the codec
MaxLabelLen == 2    \* longest channel label given to the codec
MaxCellLen == 4     \* longest cell text given to parse_audio_chans
MaxTrials == 2      \* largest value of self.trials explored
MaxClips  == 2      \* largest number of audio files explored
MaxWave   == 1      \* received voice samples range over 0..MaxWave
ScoreDen  == 2      \* per-trial scores are k/ScoreDen, k in 0..ScoreDen

(* ------------------------ external constants -------------------------- *)
\* abcmrt.fs, the only sample rate the scorer supports
abcmrt_fs == 48000

(* ------------------------------- text --------------------------------- *)
rx_voice == <<"r","x","_","v","o","i","c","e">>
tx_voice == <<"t","x","_","v","o","i","c","e">>
PTT_signal == <<"P","T","T">>
NoneText == <<"N","o","n","e">>
NanText  == <<"n","a","n">>
WavExt   == <<".","w","a","v">>

Digits == <<"0","1","2","3","4","5","6","7","8","9">>

IsDigit(c) == \E d \in 1..10 : Digits[d] = c

DigitVal(c) == (CHOOSE d \in 1..10 : Digits[d] = c) - 1

RECURSIVE IntToStr(_)
\* str(n) for a non-negative integer n
IntToStr(n) ==
    IF n < 10 THEN <<Digits[n + 1]>>
    ELSE IntToStr(n \div 10) \o <<Digits[(n % 10) + 1]>>

AllDigits(s) == Len(s) > 0 /\ \A i \in 1..Len(s) : IsDigit(s[i])

RECURSIVE StrToInt(_)
\* value of a non-empty digit string
StrToInt(s) ==
    IF Len(s) = 1 THEN DigitVal(s[1])
    ELSE 10 * StrToInt(SubSeq(s, 1, Len(s) - 1)) + DigitVal(s[Len(s)])

(* --------------------------- Python values ---------------------------- *)
PyStr(s)   == [ty |-> "str",   v |-> s]
PyInt(n)   == [ty |-> "int",   v |-> n]
PyFloat(k) == [ty |-> "float", v |-> k]
PyTuple(t) == [ty |-> "tuple", v |-> t]
PyWave(w)  == [ty |-> "int16", v |-> w]
PyNaN      == [ty |-> "nan",   v |-> 0]
PyNone     == [ty |-> "None",  v |-> 0]
PyError    == [ty |-> "error", v |-> 0]

IsErr(x) == x.ty = "error"

\* text that str.format('{}') produces for a value
FormatValue(x) ==
    CASE x.ty = "str"   -> x.v
      [] x.ty = "int"   -> IntToStr(x.v)
      [] x.ty = "float" -> IntToStr(x.v) \o <<".">>
      [] x.ty = "nan"   -> NanText
      [] x.ty = "None"  -> NoneText
      [] OTHER          -> <<"?">>

\* int(s)
ParseInt(s) == IF AllDigits(s) THEN PyInt(StrToInt(s)) ELSE PyError

\* float(s): digits with an optional trailing point, or nan
ParseFloat(s) ==
    IF s = NanText THEN PyNaN
    ELSE IF AllDigits(s) THEN PyFloat(StrToInt(s))
    ELSE IF Len(s) > 1 /\ s[Len(s)] = "." /\ AllDigits(SubSeq(s, 1, Len(s) - 1))
         THEN PyFloat(StrToInt(SubSeq(s, 1, Len(s) - 1)))
    ELSE PyError

(* ------------------------- channel string codec ----------------------- *)
RECURSIVE Join(_, _)
\* sep.join(parts)
Join(parts, sep) ==
    IF Len(parts) = 0 THEN << >>
    ELSE IF Len(parts) = 1 THEN parts[1]
    ELSE parts[1] \o sep \o Join(Tail(parts), sep)

RECURSIVE Split(_, _)
\* s.split(c) for a one-character separator c
Split(s, c) ==
    IF \A i \in 1..Len(s) : s[i] # c THEN <<s>>
    ELSE LET p == CHOOSE i \in 1..Len(s) :
                      s[i] = c /\ \A j \in 1..(i - 1) : s[j] # c
         IN  <<SubSeq(s, 1, p - 1)>> \o Split(SubSeq(s, p + 1, Len(s)), c)

\* mutant: chans_to_string without the check for a bare string, which then
\* joins the characters of the string
chans_to_string_any(chans) ==
    PyStr(<<"(">>
          \o Join([i \in 1..Len(chans.v) |->
                      IF chans.ty = "tuple" THEN chans.v[i] ELSE <<chans.v[i]>>],
                  <<";">>)
          \o <<")">>)

\* chans_to_string: rejects a bare string, joins the labels otherwise
chans_to_string(chans) ==
    IF chans.ty # "tuple" THEN PyError
    ELSE PyStr(<<"(">> \o Join(chans.v, <<";">>) \o <<")">>)

\* positions (i, j) at which the pattern \(([^)]+)\) matches in s
ChanMatches(s) ==
    {m \in (1..Len(s)) \X (1..Len(s)) :
        /\ s[m[1]] = "("
        /\ s[m[2]] = ")"
        /\ m[2] > m[1] + 1
        /\ \A k \in (m[1] + 1)..(m[2] - 1) : s[k] # ")"}

\* mutant: parse_audio_chans taking the match that starts last
parse_audio_chans_last(csv_str) ==
    IF ChanMatches(csv_str) = {} THEN PyError
    ELSE LET m == CHOOSE a \in ChanMatches(csv_str) :
                      \A b \in ChanMatches(csv_str) : a[1] >= b[1]
         IN  PyTuple(Split(SubSeq(csv_str, m[1] + 1, m[2] - 1), ";"))

\* parse_audio_chans: leftmost match of the pattern, split at ';'
parse_audio_chans(csv_str) ==
    IF ChanMatches(csv_str) = {} THEN PyError
    ELSE LET m == CHOOSE a \in ChanMatches(csv_str) :
                      \A b \in ChanMatches(csv_str) : a[1] <= b[1]
         IN  PyTuple(Split(SubSeq(csv_str, m[1] + 1, m[2] - 1), ";"))

(* ------------------------------ CSV rows ------------------------------ *)
\* keys of measure.data_fields in insertion order
data_fields == <<"Timestamp", "Filename", "channels",
                 "Over_runs", "Under_runs", "Intelligibility">>

IsDataField(k) == \E i \in 1..Len(data_fields) : data_fields[i] = k

\* the conversion data_fields[k] applied to a cell
ConvertField(k, cell) ==
    CASE k = "Timestamp"       -> PyStr(cell)
      [] k = "Filename"        -> PyStr(cell)
      [] k = "channels"        -> parse_audio_chans(cell)
      [] k = "Over_runs"       -> ParseInt(cell)
      [] k = "Under_runs"      -> ParseInt(cell)
      [] k = "Intelligibility" -> ParseFloat(cell)

\* mutant: the row format names Filename before Timestamp
csv_header_fmt_swapped ==
    [hdr |-> data_fields,
     fmt |-> <<"Filename", "Timestamp">> \o SubSeq(data_fields, 3, Len(data_fields))]

\* csv_header_fmt: the header names; the row format lists the same names
csv_header_fmt == [hdr |-> data_fields, fmt |-> data_fields]

\* dat_format.format(**dat): one cell per placeholder, in order
FormatOK(fmt, dat) == \A i \in 1..Len(fmt) : fmt[i] \in DOMAIN dat

\* mutant: the values of undeclared keys are written after the declared ones
FormatRowWithExtras(fmt, dat) ==
    [i \in 1..Len(fmt) |-> FormatValue(dat[fmt[i]])]
        \o (IF "Extra" \in DOMAIN dat THEN <<FormatValue(dat["Extra"])>> ELSE << >>)

FormatRow(fmt, dat) == [i \in 1..Len(fmt) |-> FormatValue(dat[fmt[i]])]

\* mutant: load_test_data without the test for the token None
LoadCellNoNone(k, cell) ==
    IF IsDataField(k) THEN ConvertField(k, cell)
    ELSE ParseFloat(cell)

\* mutant: load_test_data without the float fallback, so that the KeyError
\* of an undeclared column propagates
LoadCellDeclaredOnly(k, cell) ==
    IF cell = NoneText THEN PyNone
    ELSE IF IsDataField(k) THEN ConvertField(k, cell)
    ELSE PyError

\* conversion of one cell in load_test_data
LoadCell(k, cell) ==
    IF cell = NoneText THEN PyNone
    ELSE IF IsDataField(k) THEN ConvertField(k, cell)
    ELSE ParseFloat(cell)

\* one csv.DictReader row converted by load_test_data
LoadRow(hdr, cells) ==
    [k \in {hdr[i] : i \in 1..Len(hdr)} |->
        LoadCell(k, cells[CHOOSE i \in 1..Len(hdr) : hdr[i] = k])]

RowOK(row) == \A k \in DOMAIN row : ~IsErr(row[k])

EmptyFile == [hdr |-> << >>, rows |-> << >>]

\* load_test_data: every row of the file, converted
LoadData(file) == [n \in 1..Len(file.rows) |-> LoadRow(file.hdr, file.rows[n])]

LoadOK(file) == \A n \in 1..Len(file.rows) : RowOK(LoadRow(file.hdr, file.rows[n]))

\* the text of one row: dat_format.format(**dat) without the line end;
\* the values are substituted as they are, with no quoting
FormatLine(fmt, dat) == Join(FormatRow(fmt, dat), <<",">>)

\* the cells csv.reader finds in a line that holds no quote character
ReadLine(line) == Split(line, ",")

\* key under which csv.DictReader stores the cells beyond the header
RestKey == "<restkey>"

\* conversion of a column for which the line has no cell: DictReader gives
\* None, which str() turns into text and every other parser refuses
LoadMissing(k) ==
    IF k \in {"Timestamp", "Filename"} THEN PyStr(NoneText) ELSE PyError

\* one line of the file read by csv.DictReader and converted by
\* load_test_data; the list of surplus cells is refused by float()
LoadLine(hdr, line) ==
    LET cells == ReadLine(line)
        names == {hdr[i] : i \in 1..Len(hdr)}
        pos(k) == CHOOSE i \in 1..Len(hdr) : hdr[i] = k
    IN  [k \in names \cup (IF Len(cells) > Len(hdr) THEN {RestKey} ELSE {}) |->
            IF k = RestKey THEN PyError
            ELSE IF pos(k) <= Len(cells) THEN LoadCell(k, cells[pos(k)])
            ELSE LoadMissing(k)]

(* ------------------------------- audio -------------------------------- *)
\* base name (without extension) of audio file number i
ClipName(i) == <<"c">> \o IntToStr(i)

\* 'Rx{n}_{clip}.wav'
RxName(n, clip) == <<"R","x">> \o IntToStr(n) \o <<"_">> \o clip \o WavExt

\* timestamp text of the trial started at clock tick t
TimeText(t) == <<"t">> \o IntToStr(t)

\* mcvqoe.audio_float: integer samples to normalized floating point
audio_float(x) == [ty |-> "float32", v |-> x.v]

\* abcmrt.file2number: the word number encoded at the end of the file name
file2number(fname) == DigitVal(fname[Len(fname) - Len(WavExt)])

\* success of abcmrt.process for one waveform: pure in (waveform, number)
ScoreOne(voice, wnum) == (voice.v + wnum) % (ScoreDen + 1)

NaNFrac   == [num |-> 0, den |-> 0]
UnsetFrac == [num |-> 0, den |-> -1]

RECURSIVE SumV(_)
SumV(s) == IF Len(s) = 0 THEN 0 ELSE s[1].v + SumV(Tail(s))

\* np.mean over a list of scores, as a fraction; nan when empty or tainted
Mean(s) ==
    IF Len(s) = 0 \/ \E i \in 1..Len(s) : s[i].ty # "float" THEN NaNFrac
    ELSE [num |-> SumV(s), den |-> Len(s) * ScoreDen]

MeanOK(s) == \A i \in 1..Len(s) : s[i].ty \in {"float", "nan"}

\* abcmrt.guess_correction: p -> (6 p - 1) / 5
guess_correction(m) ==
    IF m.den = 0 THEN NaNFrac
    ELSE [num |-> 6 * m.num - m.den, den |-> 5 * m.den]

\* abcmrt.process on lists: per-item success, then one correction pass
ProcessBatch(speech, nums) ==
    LET succ == [i \in 1..Len(speech) |-> PyFloat(ScoreOne(speech[i], nums[i]))]
    IN  [phi_hat |-> guess_correction(Mean(succ)), success |-> succ]

\* 0-based position of needle in hay, or -1
IndexOf(hay, needle) ==
    LET hits == {p \in 1..Len(hay) :
                    /\ p + Len(needle) - 1 <= Len(hay)
                    /\ SubSeq(hay, p, p + Len(needle) - 1) = needle}
    IN  IF hits = {} THEN -1
        ELSE (CHOOSE p \in hits : \A q \in hits : p <= q) - 1

\* rec_chans.index('rx_voice') for a tuple of labels or a string
VoiceIndex(rec_chans) ==
    IF rec_chans.ty = "tuple" THEN IndexOf(rec_chans.v, <<rx_voice>>)
    ELSE IF rec_chans.ty = "str" THEN IndexOf(rec_chans.v, rx_voice)
    ELSE -1

\* mutant: process_audio takes the first channel whatever the labels
VoiceOfFirst(rec, rec_chans) == rec.data[1]

\* the voice channel process_audio extracts from a recording
VoiceOf(rec, rec_chans) ==
    IF Len(rec.data) # 1 THEN rec.data[VoiceIndex(rec_chans) + 1]
    ELSE rec.data[1]

\* process_audio raises: missing file, wrong rate, label not found, bad chans
ProcessAudioOK(store, fname, rec_chans) ==
    /\ fname \in DOMAIN store
    /\ store[fname].fs = abcmrt_fs
    /\ Len(store[fname].data) # 1 =>
          /\ VoiceIndex(rec_chans) >= 0
          /\ VoiceIndex(rec_chans) < Len(store[fname].data)
    /\ ~IsErr(chans_to_string(rec_chans))

\* the exception process_audio raises on a stored recording, or "none":
\* the rate check, then the index of the label, then the column, then
\* chans_to_string when the result is built
ProcessAudioRaises(store, fname, rec_chans) ==
    LET rec == store[fname]
    IN  IF rec.fs # abcmrt_fs THEN "RuntimeError"
        ELSE IF Len(rec.data) # 1 /\ VoiceIndex(rec_chans) < 0 THEN "ValueError"
        ELSE IF Len(rec.data) # 1 /\ VoiceIndex(rec_chans) >= Len(rec.data)
             THEN "IndexError"
        ELSE IF IsErr(chans_to_string(rec_chans)) THEN "ValueError"
        ELSE "none"

\* mutant: process_audio scores whenever audio is processed for scoring
ScoresUnlessNone(mode) == mode # "none"

\* mutant: process_audio scores unless the mode is aggregate
ScoresUnlessAggregate(mode) == mode # "aggregate"

\* does process_audio call the scorer in this mode
ScoresPerTrial(mode) == mode = "trial"

\* the dictionary process_audio returns
process_audio(store, fname, rec_chans, mode) ==
    LET voice_dat == VoiceOf(store[fname], rec_chans)
        word_num  == file2number(fname)
    IN  [Intelligibility |-> IF ScoresPerTrial(mode)
                             THEN PyFloat(ScoreOne(voice_dat, word_num))
                             ELSE PyNaN,
         channels |-> chans_to_string(rec_chans),
         voice    |-> voice_dat,
         wnum     |-> PyInt(word_num)]

(* ------------------------------- state -------------------------------- *)
Modes == {"aggregate", "trial", "none"}

\* csv_data_dir/{base}_TEMP.csv, csv_data_dir/{base}.csv, os.devnull
TempName == "capture_TEMP.csv"
DataName == "capture.csv"
DevNull  == "devnull"
\* default output name of the reprocess script: 'R' + name of the data file
OutName  == "Rcapture.csv"
Paths    == {TempName, DataName, DevNull, OutName}

VARIABLES
    pc,               \* position of the control flow
    intell_est,       \* self.intell_est
    trials,           \* self.trials
    get_post_notes,   \* self.get_post_notes: "unset", "None" or "func"
    audio_interface,  \* sample_rate, playback_chans, rec_chans of the interface
    nclips,           \* len(self.audio_files)
    clipi,            \* self.clipi, the clip index of every trial
    trial,            \* loop variable of the measurement loop
    trial_dat,        \* dictionary of the trial being written
    ret,              \* local intell_est of run(), the value it returns
    err,              \* an exception is propagating
    test_dat,         \* list of row dictionaries handed to post_process
    ppn,              \* number of rows post_process has handled
    speech,           \* post_process: collected waveforms
    clip_num,         \* post_process: collected word numbers
    success,          \* post_process: collected scores
    ppRet,            \* where post_process returns to
    ppFname,          \* post_process: the file name to write to
    wopen,            \* path of the file open for writing, or "none"
    wbuf,             \* text written to the open file and not yet on disk
    fsExists,         \* paths that exist
    fsData,           \* content on disk of every path
    wavs,             \* recordings in the wav directory, by file name
    dirs,             \* data directories created
    logPre,           \* mcvqoe.write_log.pre has written the log entry
    logPost,          \* mcvqoe.post has closed the log entry
    calls,            \* calls made to ri and audio_interface, and sleeps
    scorerCalls,      \* calls made to abcmrt.process
    progCalls,        \* calls made to progress_update
    mode0,            \* intell_est when run() was called
    cancelAt,         \* trial index at which progress_update returned False
    played,           \* voice sample received in each play_record
    failAt,           \* trial index during which a capture step raised
    libOp,            \* library function last called directly, or "none"
    libIn,            \* the argument of that call
    libOut,           \* what that call returned or raised
    save_audio,       \* attribute save_audio, as the caller assigned it
    save_tx_audio,    \* self.save_tx_audio
    txWritten         \* the Tx_{clip}.wav files are in the wav directory

objVars   == <<intell_est, trials, get_post_notes, audio_interface, nclips, clipi>>
runVars   == <<trial, trial_dat, ret, err>>
ppVars    == <<test_dat, ppn, speech, clip_num, success, ppRet, ppFname>>
fileVars  == <<wopen, wbuf, fsExists, fsData>>
envVars   == <<wavs, dirs, logPre, logPost>>
logVars   == <<calls, scorerCalls, progCalls>>
ghostVars == <<mode0, cancelAt, played, failAt>>
libVars   == <<libOp, libIn, libOut>>
keepVars  == <<save_audio, save_tx_audio, txWritten>>

vars == <<pc, objVars, runVars, ppVars, fileVars, envVars, logVars, ghostVars,
         libVars, keepVars>>

Interfaces ==
    [sample_rate    : {abcmrt_fs, 44100},
     playback_chans : {<<tx_voice>>, <<PTT_signal>>},
     rec_chans      : {<<rx_voice>>, <<PTT_signal, rx_voice>>, <<PTT_signal>>}]

\* measure.__init__ followed by the caller's audio_files, trials and interface
Init ==
    /\ pc = "idle"
    /\ intell_est = "aggregate"
    /\ get_post_notes = "unset"
    /\ trials \in 1..MaxTrials
    /\ nclips \in 1..MaxClips
    /\ audio_interface \in Interfaces
    /\ clipi = << >>
    /\ trial = 0
    /\ trial_dat = << >>
    /\ ret = UnsetFrac
    /\ err = FALSE
    /\ test_dat = << >>
    /\ ppn = 0
    /\ speech = << >>
    /\ clip_num = << >>
    /\ success = << >>
    /\ ppRet = "none"
    /\ ppFname = "none"
    /\ wopen = "none"
    /\ wbuf = EmptyFile
    /\ fsExists = {DevNull}
    /\ fsData = [p \in Paths |-> EmptyFile]
    /\ wavs = << >>
    /\ dirs = FALSE
    /\ logPre = FALSE
    /\ logPost = FALSE
    /\ calls = << >>
    /\ scorerCalls = << >>
    /\ progCalls = << >>
    /\ mode0 = "unset"
    /\ cancelAt = -1
    /\ played = << >>
    /\ failAt = -1
    /\ libOp = "none"
    /\ libIn = << >>
    /\ libOut = << >>
    /\ save_audio = FALSE
    /\ save_tx_audio = FALSE
    /\ txWritten = FALSE

(* ------------------------------ file system --------------------------- *)
\* mutant: the buffered rows never reach the disk
FlushedDropRows(path, buf) == fsData[path]

\* content of path once the buffer buf has been flushed to it
Flushed(path, buf) ==
    IF path = DevNull THEN EmptyFile
    ELSE [hdr  |-> IF fsData[path].hdr = << >> THEN buf.hdr ELSE fsData[path].hdr,
          rows |-> fsData[path].rows \o buf.rows]

\* leaving the with block: the buffer reaches the disk, the file is closed
Close ==
    /\ wopen' = "none"
    /\ wbuf' = EmptyFile
    /\ fsData' = [fsData EXCEPT ![wopen] = Flushed(wopen, wbuf)]
    /\ UNCHANGED fsExists

\* shutil.move(src, dst)
Move(src, dst) ==
    /\ fsExists' = (fsExists \ {src}) \cup {dst}
    /\ fsData' = [fsData EXCEPT ![dst] = fsData[src], ![src] = EmptyFile]
    /\ UNCHANGED <<wopen, wbuf>>

\* mutant: the file is left in place
RemoveNothing(path) == UNCHANGED <<fsExists, fsData, wopen, wbuf>>

\* os.remove(path)
Remove(path) ==
    /\ fsExists' = fsExists \ {path}
    /\ fsData' = [fsData EXCEPT ![path] = EmptyFile]
    /\ UNCHANGED <<wopen, wbuf>>

(* -------------------------------- run() -------------------------------- *)
\* the caller assigns attributes of the object before run()
SetAttrs ==
    /\ pc = "idle"
    /\ \E m \in Modes, g \in {"unset", "None", "func"} :
          /\ intell_est' = m
          /\ get_post_notes' = g
    /\ pc' = "ready"
    /\ UNCHANGED <<trials, audio_interface, nclips, clipi, keepVars>>
    /\ UNCHANGED <<runVars, ppVars, fileVars, envVars, logVars, ghostVars>>
    /\ UNCHANGED libVars

\* mutant: the record channel is not checked
ConfigValidNoRec ==
    /\ audio_interface.sample_rate = abcmrt_fs
    /\ \E i \in 1..Len(audio_interface.playback_chans) :
          audio_interface.playback_chans[i] = tx_voice

\* the three checks at the top of run()
ConfigValid ==
    /\ audio_interface.sample_rate = abcmrt_fs
    /\ \E i \in 1..Len(audio_interface.playback_chans) :
          audio_interface.playback_chans[i] = tx_voice
    /\ \E i \in 1..Len(audio_interface.rec_chans) :
          audio_interface.rec_chans[i] = rx_voice

\* run(): sample rate and channel checks, raised before the try block
RunValidate ==
    /\ pc = "ready"
    /\ mode0' = intell_est
    /\ pc' = IF ConfigValid THEN "prepare" ELSE "aborted"
    /\ err' = ~ConfigValid
    /\ UNCHANGED <<trial, trial_dat, ret, cancelAt, played, failAt>>
    /\ UNCHANGED <<objVars, ppVars, fileVars, envVars, logVars>>
    /\ UNCHANGED libVars
    /\ UNCHANGED keepVars

\* mutant: the schedule is drawn with repetition
PermsRepeating(n) == [1..n -> 0..(n - 1)]

\* permutations of 0..n-1
Perms(n) == {p \in [1..n -> 0..(n - 1)] :
                \A i, j \in 1..n : p[i] = p[j] => i = j}

\* run(): load audio, draw the clip schedule, make directories, open the log
RunPrepare ==
    /\ pc = "prepare"
    /\ \E p \in Perms(trials) : clipi' = [i \in 1..trials |-> p[i] % nclips]
    /\ dirs' = TRUE
    /\ txWritten' = save_tx_audio
    /\ logPre' = TRUE
    /\ pc' = "led_on"
    /\ UNCHANGED <<intell_est, trials, get_post_notes, audio_interface, nclips>>
    /\ UNCHANGED <<save_audio, save_tx_audio>>
    /\ UNCHANGED <<wavs, logPost>>
    /\ UNCHANGED <<runVars, ppVars, fileVars, logVars, ghostVars>>
    /\ UNCHANGED libVars

\* run(): self.ri.led(1, True)
RunLedOn ==
    /\ pc = "led_on"
    /\ calls' = Append(calls, "led_on")
    /\ pc' = "header"
    /\ UNCHANGED <<scorerCalls, progCalls>>
    /\ UNCHANGED <<objVars, runVars, ppVars, fileVars, envVars, ghostVars>>
    /\ UNCHANGED libVars
    /\ UNCHANGED keepVars

\* run(): create the temp file holding the header
RunWriteHeader ==
    /\ pc = "header"
    /\ fsExists' = fsExists \cup {TempName}
    /\ fsData' = [fsData EXCEPT ![TempName] =
                      [hdr |-> csv_header_fmt.hdr, rows |-> << >>]]
    /\ trial' = 0
    /\ pc' = "progress"
    /\ UNCHANGED <<wopen, wbuf, trial_dat, ret, err>>
    /\ UNCHANGED <<objVars, ppVars, envVars, logVars, ghostVars>>
    /\ UNCHANGED libVars
    /\ UNCHANGED keepVars

\* mutant: the exception is swallowed and the run goes on to its cleanup
RaiseSwallowed ==
    /\ pc' = "cleanup"
    /\ err' = FALSE

\* an exception leaves the try block: control goes to the finally clause
Raise ==
    /\ pc' = "finally"
    /\ err' = TRUE

\* mutant: a False from progress_update does not end the loop
RunProgressNoBreak ==
    /\ pc = "progress"
    /\ trial < trials
    /\ \E go \in BOOLEAN :
          /\ progCalls' = Append(progCalls,
                 [type |-> "test", total |-> trials, current |-> trial, go |-> go])
          /\ cancelAt' = IF go \/ cancelAt >= 0 THEN cancelAt ELSE trial
          /\ pc' = "ptt_on"
    /\ UNCHANGED <<calls, scorerCalls, mode0, played, failAt>>
    /\ UNCHANGED <<objVars, runVars, ppVars, fileVars, envVars>>
    /\ UNCHANGED libVars
    /\ UNCHANGED keepVars

\* mutant: progress_update is given the 1-based number of the trial
RunProgressFromOne ==
    /\ pc = "progress"
    /\ trial < trials
    /\ \E go \in BOOLEAN :
          /\ progCalls' = Append(progCalls,
                 [type |-> "test", total |-> trials, current |-> trial + 1,
                  go |-> go])
          /\ IF go
             THEN /\ pc' = "ptt_on"
                  /\ UNCHANGED <<calls, cancelAt>>
             ELSE /\ calls' = Append(calls, "led_off")
                  /\ cancelAt' = trial
                  /\ pc' = "cleanup"
    /\ UNCHANGED <<scorerCalls, mode0, played, failAt>>
    /\ UNCHANGED <<objVars, runVars, ppVars, fileVars, envVars>>
    /\ UNCHANGED libVars
    /\ UNCHANGED keepVars

\* loop head: progress_update('test', trials, trial); False ends the loop
RunProgress ==
    /\ pc = "progress"
    /\ trial < trials
    /\ \E go \in BOOLEAN :
          /\ progCalls' = Append(progCalls,
                 [type |-> "test", total |-> trials, current |-> trial, go |-> go])
          /\ IF go
             THEN /\ pc' = "ptt_on"
                  /\ UNCHANGED <<calls, cancelAt>>
             ELSE /\ calls' = Append(calls, "led_off")
                  /\ cancelAt' = trial
                  /\ pc' = "cleanup"
    /\ UNCHANGED <<scorerCalls, mode0, played, failAt>>
    /\ UNCHANGED <<objVars, runVars, ppVars, fileVars, envVars>>
    /\ UNCHANGED libVars
    /\ UNCHANGED keepVars

\* loop head: range(self.trials) is exhausted
RunLoopExit ==
    /\ pc = "progress"
    /\ trial >= trials
    /\ pc' = "cleanup"
    /\ UNCHANGED <<objVars, runVars, ppVars, fileVars, envVars, logVars, ghostVars>>
    /\ UNCHANGED libVars
    /\ UNCHANGED keepVars

\* ri.ptt(True), then sleep(ptt_wait); the call may raise
RunPttOn ==
    /\ pc = "ptt_on"
    /\ \/ /\ calls' = calls \o <<"ptt_on", "ptt_wait">>
          /\ pc' = "play"
          /\ UNCHANGED <<err, failAt>>
       \/ /\ calls' = Append(calls, "ptt_on")
          /\ failAt' = trial
          /\ Raise
    /\ UNCHANGED <<trial, trial_dat, ret, scorerCalls, progCalls>>
    /\ UNCHANGED <<mode0, cancelAt, played>>
    /\ UNCHANGED <<objVars, ppVars, fileVars, envVars>>
    /\ UNCHANGED libVars
    /\ UNCHANGED keepVars

\* name of the recording of the current trial
CurClip == ClipName(clipi[trial + 1])

CurRxName == RxName(trial + 1, CurClip)

\* what play_record stores for a received voice sample w
Recording(w) ==
    [fs   |-> audio_interface.sample_rate,
     data |-> [i \in 1..Len(audio_interface.rec_chans) |->
                  IF audio_interface.rec_chans[i] = rx_voice
                  THEN PyWave(w) ELSE PyWave(0)]]

\* audio_interface.play_record(y[clip_index], clip_name); the call may raise
RunPlayRecord ==
    /\ pc = "play"
    /\ \/ /\ \E w \in 0..MaxWave :
                /\ wavs' = (CurRxName :> Recording(w)) @@ wavs
                /\ played' = Append(played, w)
          /\ calls' = Append(calls, "play_record")
          /\ pc' = "ptt_off"
          /\ UNCHANGED <<err, failAt>>
       \/ /\ calls' = Append(calls, "play_record")
          /\ failAt' = trial
          /\ Raise
          /\ UNCHANGED <<wavs, played>>
    /\ UNCHANGED <<trial, trial_dat, ret, scorerCalls, progCalls>>
    /\ UNCHANGED <<mode0, cancelAt, dirs, logPre, logPost>>
    /\ UNCHANGED <<objVars, ppVars, fileVars>>
    /\ UNCHANGED libVars
    /\ UNCHANGED keepVars

\* mutant: the channel is not unkeyed after play_record
RunPttOffSkipped ==
    /\ pc = "ptt_off"
    /\ \/ /\ calls' = calls \o <<"ptt_gap">>
          /\ pc' = "process"
          /\ UNCHANGED <<err, failAt>>
       \/ /\ calls' = Append(calls, "ptt_off")
          /\ failAt' = trial
          /\ Raise
    /\ UNCHANGED <<trial, trial_dat, ret, scorerCalls, progCalls>>
    /\ UNCHANGED <<mode0, cancelAt, played>>
    /\ UNCHANGED <<objVars, ppVars, fileVars, envVars>>
    /\ UNCHANGED libVars
    /\ UNCHANGED keepVars

\* ri.ptt(False), then sleep(ptt_gap); the call may raise
RunPttOff ==
    /\ pc = "ptt_off"
    /\ \/ /\ calls' = calls \o <<"ptt_off", "ptt_gap">>
          /\ pc' = "process"
          /\ UNCHANGED <<err, failAt>>
       \/ /\ calls' = Append(calls, "ptt_off")
          /\ failAt' = trial
          /\ Raise
    /\ UNCHANGED <<trial, trial_dat, ret, scorerCalls, progCalls>>
    /\ UNCHANGED <<mode0, cancelAt, played>>
    /\ UNCHANGED <<objVars, ppVars, fileVars, envVars>>
    /\ UNCHANGED libVars
    /\ UNCHANGED keepVars

\* the scorer call process_audio makes for dictionary dat, if any
ScorerCallOf(mode, dat) ==
    IF ScoresPerTrial(mode)
    THEN <<[kind |-> "one", speech |-> <<dat.voice>>, nums |-> <<dat.wnum.v>>]>>
    ELSE << >>

\* process_audio on the new recording, then the remaining row fields
RunProcessAudio ==
    /\ pc = "process"
    /\ LET rc == PyTuple(audio_interface.rec_chans)
       IN  \/ /\ ProcessAudioOK(wavs, CurRxName, rc)
              /\ LET dat == process_audio(wavs, CurRxName, rc, intell_est)
                 IN  /\ trial_dat' =
                            [Filename   |-> PyStr(CurClip),
                             Timestamp  |-> PyStr(TimeText(trial)),
                             Over_runs  |-> PyInt(0),
                             Under_runs |-> PyInt(0)] @@ dat
                     /\ scorerCalls' = scorerCalls \o ScorerCallOf(intell_est, dat)
              /\ pc' = "append"
              /\ UNCHANGED <<err, failAt>>
           \/ /\ failAt' = trial
              /\ Raise
              /\ UNCHANGED <<trial_dat, scorerCalls>>
    /\ UNCHANGED <<trial, ret, calls, progCalls, mode0, cancelAt, played>>
    /\ UNCHANGED <<objVars, ppVars, fileVars, envVars>>
    /\ UNCHANGED libVars
    /\ UNCHANGED keepVars

\* open(temp, 'at') and write the formatted row into the buffer
RunAppendOpen ==
    /\ pc = "append"
    /\ wopen' = TempName
    /\ wbuf' = [hdr |-> << >>,
                rows |-> <<FormatRow(csv_header_fmt.fmt, trial_dat)>>]
    /\ pc' = "append_close"
    /\ UNCHANGED <<fsExists, fsData>>
    /\ UNCHANGED <<objVars, runVars, ppVars, envVars, logVars, ghostVars>>
    /\ UNCHANGED libVars
    /\ UNCHANGED keepVars

\* end of the with block: the row is on disk; next iteration
RunAppendClose ==
    /\ pc = "append_close"
    /\ Close
    /\ trial' = trial + 1
    /\ pc' = "progress"
    /\ UNCHANGED <<trial_dat, ret, err>>
    /\ UNCHANGED <<objVars, ppVars, envVars, logVars, ghostVars>>
    /\ UNCHANGED libVars
    /\ UNCHANGED keepVars

(* ---------------------------- post_process ---------------------------- *)
\* post_process: open fname for writing and write the header
PostOpen ==
    /\ pc = "pp_open"
    /\ wopen' = ppFname
    /\ wbuf' = [hdr |-> csv_header_fmt.hdr, rows |-> << >>]
    /\ fsExists' = fsExists \cup {ppFname}
    /\ fsData' = [fsData EXCEPT ![ppFname] = EmptyFile]
    /\ ppn' = 0
    /\ speech' = << >>
    /\ clip_num' = << >>
    /\ success' = << >>
    /\ pc' = "pp_row"
    /\ UNCHANGED <<test_dat, ppRet, ppFname>>
    /\ UNCHANGED <<objVars, runVars, envVars, logVars, ghostVars>>
    /\ UNCHANGED libVars
    /\ UNCHANGED keepVars

\* an exception leaves post_process: the with block closes the file
PostRaise ==
    /\ Close
    /\ pc' = IF ppRet = "rp_done" THEN "rp_aborted" ELSE "finally"
    /\ err' = TRUE

\* rec_chans of a row: its channels, or the fallback ('rx_voice')
RowChans(row) ==
    IF "channels" \in DOMAIN row THEN row["channels"] ELSE PyStr(rx_voice)

\* the clip file name can be built from the row
RowNameOK(row) == "Filename" \in DOMAIN row /\ row["Filename"].ty = "str"

\* mutant: post_process numbers the recordings from 0
RowClipNameFromZero(n, row) == RxName(n - 1, row["Filename"].v)

\* 'Rx{n}_{Filename}.wav' of row number n (1-based) in post_process
RowClipName(n, row) == RxName(n, row["Filename"].v)

\* mutant: audio is loaded and process_audio called in every mode
LoadsAudioAlways(mode) == TRUE

\* audio is loaded and process_audio called unless the mode is none
LoadsAudio(mode) == mode # "none"

\* the row taken from the csv with its channels made a string again
Restrung(row) == [row EXCEPT !["channels"] = chans_to_string(row["channels"])]

\* mutant: the score taken from the csv is blanked
KeptScoreBlank(row) == PyNaN

\* the Intelligibility post_process writes for a row in aggregate or none mode
KeptScore(row) == row["Intelligibility"]

\* mutant: in trial mode the values of the csv row win over the new ones
MergedRowWins(mode, row, new_dat) ==
    IF mode = "trial" THEN row @@ new_dat
    ELSE [Restrung(row) EXCEPT !["Intelligibility"] = KeptScore(row)]

\* merged_dat of a row, new_dat being what process_audio returned
Merged(mode, row, new_dat) ==
    IF mode = "trial" THEN new_dat @@ row
    ELSE [Restrung(row) EXCEPT !["Intelligibility"] = KeptScore(row)]

\* lines 697-704 raise: no channels key, a bare string, or no score to take
MergeOK(mode, row) ==
    mode # "trial" =>
        /\ "channels" \in DOMAIN row
        /\ ~IsErr(chans_to_string(row["channels"]))
        /\ "Intelligibility" \in DOMAIN row

\* mutant: progress_update is given the 1-based number of the row
ProcProgressFromOne(n, go) ==
    [type |-> "proc", total |-> trials, current |-> n + 1, go |-> go]

\* progress_update('proc', self.trials, n), which returned go
ProcProgress(n, go) ==
    [type |-> "proc", total |-> trials, current |-> n, go |-> go]

\* post_process: one iteration of the loop over test_dat, in which
\* progress_update returns go; the returned value is not looked at
PostRowWith(go) ==
    /\ pc = "pp_row"
    /\ ppn < Len(test_dat)
    /\ LET n   == ppn + 1
           row == test_dat[n]
           rc  == RowChans(row)
       IN  /\ progCalls' = Append(progCalls, ProcProgress(ppn, go))
           /\ \/ /\ RowNameOK(row)
                 /\ LoadsAudio(intell_est) =>
                        ProcessAudioOK(wavs, RowClipName(n, row), rc)
                 /\ MergeOK(intell_est, row)
                 /\ LET new_dat == IF LoadsAudio(intell_est)
                                   THEN process_audio(wavs, RowClipName(n, row),
                                                      rc, intell_est)
                                   ELSE << >>
                        merged  == Merged(intell_est, row, new_dat)
                    IN  /\ FormatOK(csv_header_fmt.fmt, merged)
                        /\ scorerCalls' =
                               IF LoadsAudio(intell_est)
                               THEN scorerCalls \o ScorerCallOf(intell_est, new_dat)
                               ELSE scorerCalls
                        /\ test_dat' =
                               IF intell_est = "trial" THEN test_dat
                               ELSE [test_dat EXCEPT ![n] = Restrung(row)]
                        /\ speech' =
                               IF intell_est = "aggregate"
                               THEN Append(speech, new_dat.voice) ELSE speech
                        /\ clip_num' =
                               IF intell_est = "aggregate"
                               THEN Append(clip_num, new_dat.wnum.v) ELSE clip_num
                        /\ success' =
                               CASE intell_est = "trial" ->
                                        Append(success, new_dat.Intelligibility)
                                 [] intell_est = "none" ->
                                        Append(success, row["Intelligibility"])
                                 [] OTHER -> success
                        /\ wbuf' = [wbuf EXCEPT !.rows =
                               Append(@, FormatRow(csv_header_fmt.fmt, merged))]
                 /\ ppn' = n
                 /\ pc' = "pp_row"
                 /\ UNCHANGED <<wopen, fsExists, fsData, err>>
              \/ \* the row cannot be processed, or reading its audio fails
                 /\ \/ ~RowNameOK(row)
                    \/ LoadsAudio(intell_est)
                    \/ ~MergeOK(intell_est, row)
                 /\ PostRaise
                 /\ UNCHANGED <<scorerCalls, test_dat, speech, clip_num, success, ppn>>
    /\ UNCHANGED <<ppRet, ppFname, trial, trial_dat, ret, calls>>
    /\ UNCHANGED <<objVars, envVars, ghostVars>>
    /\ UNCHANGED libVars
    /\ UNCHANGED keepVars

\* the loop iteration under a callback that returns True, as
\* terminal_progress_update does
PostRow ==
    /\ PostRowWith(TRUE)

\* the loop iteration under a callback that returns False
PostRowDeclined ==
    /\ PostRowWith(FALSE)

\* post_process: score the batch or correct the mean, close the file, return
PostFinish ==
    /\ pc = "pp_row"
    /\ ppn >= Len(test_dat)
    /\ IF intell_est = "aggregate"
       THEN /\ scorerCalls' = Append(scorerCalls,
                   [kind |-> "batch", speech |-> speech, nums |-> clip_num])
            /\ ret' = ProcessBatch(speech, clip_num).phi_hat
            /\ Close
            /\ pc' = ppRet
            /\ UNCHANGED err
       ELSE IF MeanOK(success)
            THEN /\ ret' = guess_correction(Mean(success))
                 /\ Close
                 /\ pc' = ppRet
                 /\ UNCHANGED <<scorerCalls, err>>
            ELSE /\ PostRaise
                 /\ UNCHANGED <<scorerCalls, ret>>
    /\ UNCHANGED <<trial, trial_dat, calls, progCalls>>
    /\ UNCHANGED <<objVars, ppVars, envVars, ghostVars>>
    /\ UNCHANGED libVars
    /\ UNCHANGED keepVars

(* --------------------------- run(): cleanup ---------------------------- *)
\* mutant: the temp file is removed as soon as it has been loaded
RunAggLoadRemoving ==
    /\ pc = "cleanup"
    /\ intell_est = "aggregate"
    /\ test_dat' = LoadData(fsData[TempName])
    /\ trials' = Len(fsData[TempName].rows)
    /\ ppFname' = DataName
    /\ ppRet' = "agg_remove"
    /\ pc' = "pp_open"
    /\ Remove(TempName)
    /\ UNCHANGED <<intell_est, get_post_notes, audio_interface, nclips, clipi>>
    /\ UNCHANGED <<ppn, speech, clip_num, success>>
    /\ UNCHANGED <<runVars, envVars, logVars, ghostVars>>
    /\ UNCHANGED libVars
    /\ UNCHANGED keepVars

\* aggregate: load the temp file and call post_process on the final name
RunAggLoad ==
    /\ pc = "cleanup"
    /\ intell_est = "aggregate"
    /\ test_dat' = LoadData(fsData[TempName])
    /\ trials' = Len(fsData[TempName].rows)
    /\ ppFname' = DataName
    /\ ppRet' = "agg_remove"
    /\ pc' = "pp_open"
    /\ UNCHANGED <<intell_est, get_post_notes, audio_interface, nclips, clipi>>
    /\ UNCHANGED <<ppn, speech, clip_num, success>>
    /\ UNCHANGED <<runVars, fileVars, envVars, logVars, ghostVars>>
    /\ UNCHANGED libVars
    /\ UNCHANGED keepVars

\* aggregate: os.remove(temp_data_filename)
RunAggRemove ==
    /\ pc = "agg_remove"
    /\ Remove(TempName)
    /\ pc' = "led_off"
    /\ UNCHANGED <<objVars, runVars, ppVars, envVars, logVars, ghostVars>>
    /\ UNCHANGED libVars
    /\ UNCHANGED keepVars

\* trial: shutil.move(temp_data_filename, self.data_filename)
RunTrialMove ==
    /\ pc = "cleanup"
    /\ intell_est = "trial"
    /\ Move(TempName, DataName)
    /\ pc' = "trial_load"
    /\ UNCHANGED <<objVars, runVars, ppVars, envVars, logVars, ghostVars>>
    /\ UNCHANGED libVars
    /\ UNCHANGED keepVars

\* mutant: the mode is not switched to 'none' before post_process
RunTrialLoadKeepMode ==
    /\ pc = "trial_load"
    /\ test_dat' = LoadData(fsData[DataName])
    /\ trials' = Len(fsData[DataName].rows)
    /\ ppFname' = DevNull
    /\ ppRet' = "led_off"
    /\ pc' = "pp_open"
    /\ UNCHANGED <<intell_est, get_post_notes, audio_interface, nclips, clipi>>
    /\ UNCHANGED <<ppn, speech, clip_num, success>>
    /\ UNCHANGED <<runVars, fileVars, envVars, logVars, ghostVars>>
    /\ UNCHANGED libVars
    /\ UNCHANGED keepVars

\* mutant: the summary pass writes to the final file
RunTrialLoadToFinal ==
    /\ pc = "trial_load"
    /\ test_dat' = LoadData(fsData[DataName])
    /\ trials' = Len(fsData[DataName].rows)
    /\ intell_est' = "none"
    /\ ppFname' = DataName
    /\ ppRet' = "led_off"
    /\ pc' = "pp_open"
    /\ UNCHANGED <<get_post_notes, audio_interface, nclips, clipi>>
    /\ UNCHANGED <<ppn, speech, clip_num, success>>
    /\ UNCHANGED <<runVars, fileVars, envVars, logVars, ghostVars>>
    /\ UNCHANGED libVars
    /\ UNCHANGED keepVars

\* trial: load the final file, switch to 'none', post_process to os.devnull
RunTrialLoad ==
    /\ pc = "trial_load"
    /\ test_dat' = LoadData(fsData[DataName])
    /\ trials' = Len(fsData[DataName].rows)
    /\ intell_est' = "none"
    /\ ppFname' = DevNull
    /\ ppRet' = "led_off"
    /\ pc' = "pp_open"
    /\ UNCHANGED <<get_post_notes, audio_interface, nclips, clipi>>
    /\ UNCHANGED <<ppn, speech, clip_num, success>>
    /\ UNCHANGED <<runVars, fileVars, envVars, logVars, ghostVars>>
    /\ UNCHANGED libVars
    /\ UNCHANGED keepVars

\* none: move the temp file to the final name; the estimate is nan
RunNoneMove ==
    /\ pc = "cleanup"
    /\ intell_est \notin {"aggregate", "trial"}
    /\ Move(TempName, DataName)
    /\ ret' = NaNFrac
    /\ pc' = "led_off"
    /\ UNCHANGED <<trial, trial_dat, err>>
    /\ UNCHANGED <<objVars, ppVars, envVars, logVars, ghostVars>>
    /\ UNCHANGED libVars
    /\ UNCHANGED keepVars

\* run(): self.ri.led(1, False) at the end of the try block
RunLedOff ==
    /\ pc = "led_off"
    /\ calls' = Append(calls, "led_off")
    /\ pc' = "finally"
    /\ UNCHANGED <<scorerCalls, progCalls>>
    /\ UNCHANGED <<objVars, runVars, ppVars, fileVars, envVars, ghostVars>>
    /\ UNCHANGED libVars
    /\ UNCHANGED keepVars

\* the value of 'return (intell_est)': the local estimate, a float
RunReturn == [ty |-> "float", v |-> ret]

\* reading self.get_post_notes raises AttributeError when never assigned
FinallyOK == get_post_notes # "unset"

\* finally: get the post-test notes, close the log entry, return or re-raise
RunFinally ==
    /\ pc = "finally"
    /\ IF FinallyOK
       THEN /\ logPost' = TRUE
            /\ calls' = IF get_post_notes = "func"
                        THEN Append(calls, "get_post_notes") ELSE calls
            /\ pc' = IF err THEN "aborted" ELSE "done"
            /\ UNCHANGED err
       ELSE /\ pc' = "aborted"
            /\ err' = TRUE
            /\ UNCHANGED <<logPost, calls>>
    /\ UNCHANGED <<trial, trial_dat, ret, scorerCalls, progCalls>>
    /\ UNCHANGED <<wavs, dirs, logPre>>
    /\ UNCHANGED <<objVars, ppVars, fileVars, ghostVars>>
    /\ UNCHANGED libVars
    /\ UNCHANGED keepVars

(* ----------------------------- reprocessing --------------------------- *)
\* a new measure object in mode m loads the data file of the finished run
\* and post-processes it to the output name
ReprocStart ==
    /\ pc = "done"
    /\ \E m \in Modes : intell_est' = m
    /\ IF LoadOK(fsData[DataName])
       THEN /\ test_dat' = LoadData(fsData[DataName])
            /\ trials' = Len(fsData[DataName].rows)
            /\ ppFname' = OutName
            /\ ppRet' = "rp_done"
            /\ pc' = "pp_open"
            /\ UNCHANGED err
       ELSE /\ pc' = "rp_aborted"
            /\ err' = TRUE
            /\ UNCHANGED <<test_dat, trials, ppFname, ppRet>>
    /\ UNCHANGED <<get_post_notes, audio_interface, nclips, clipi>>
    /\ UNCHANGED <<ppn, speech, clip_num, success, trial, trial_dat, ret>>
    /\ UNCHANGED <<fileVars, envVars, logVars, ghostVars>>
    /\ UNCHANGED libVars
    /\ UNCHANGED keepVars

\* the file without its column named k
WithoutColumn(file, k) ==
    LET p == CHOOSE i \in 1..Len(file.hdr) : file.hdr[i] = k
        cut(r) == SubSeq(r, 1, p - 1) \o SubSeq(r, p + 1, Len(r))
    IN  [hdr  |-> cut(file.hdr),
         rows |-> [n \in 1..Len(file.rows) |-> cut(file.rows[n])]]

\* a new measure object in mode m loads a copy of the data file that has no
\* channels column and post-processes it to the output name
ReprocNoChannels ==
    /\ pc = "done"
    /\ \E m \in Modes : intell_est' = m
    /\ LET file == WithoutColumn(fsData[DataName], "channels")
       IN  IF LoadOK(file)
           THEN /\ test_dat' = LoadData(file)
                /\ trials' = Len(file.rows)
                /\ ppFname' = OutName
                /\ ppRet' = "rp_done"
                /\ pc' = "pp_open"
                /\ UNCHANGED err
           ELSE /\ pc' = "rp_aborted"
                /\ err' = TRUE
                /\ UNCHANGED <<test_dat, trials, ppFname, ppRet>>
    /\ UNCHANGED <<get_post_notes, audio_interface, nclips, clipi>>
    /\ UNCHANGED <<ppn, speech, clip_num, success, trial, trial_dat, ret>>
    /\ UNCHANGED <<fileVars, envVars, logVars, ghostVars>>
    /\ UNCHANGED libVars
    /\ UNCHANGED keepVars

\* the file with the cell of column k replaced by text in every row
WithCell(file, k, text) ==
    LET p == CHOOSE i \in 1..Len(file.hdr) : file.hdr[i] = k
    IN  [hdr  |-> file.hdr,
         rows |-> [n \in 1..Len(file.rows) |-> [file.rows[n] EXCEPT ![p] = text]]]

\* a new measure object in trial mode loads a copy of the data file whose
\* rows carry an older score and post-processes it to the output name
ReprocRescore ==
    /\ pc = "done"
    /\ intell_est' = "trial"
    /\ \E old \in {0, ScoreDen} :
          LET file == WithCell(fsData[DataName], "Intelligibility",
                               FormatValue(PyFloat(old)))
          IN  IF LoadOK(file)
              THEN /\ test_dat' = LoadData(file)
                   /\ trials' = Len(file.rows)
                   /\ ppFname' = OutName
                   /\ ppRet' = "rp_done"
                   /\ pc' = "pp_open"
                   /\ UNCHANGED err
              ELSE /\ pc' = "rp_aborted"
                   /\ err' = TRUE
                   /\ UNCHANGED <<test_dat, trials, ppFname, ppRet>>
    /\ UNCHANGED <<get_post_notes, audio_interface, nclips, clipi>>
    /\ UNCHANGED <<ppn, speech, clip_num, success, trial, trial_dat, ret>>
    /\ UNCHANGED <<fileVars, envVars, logVars, ghostVars>>
    /\ UNCHANGED libVars
    /\ UNCHANGED keepVars

Next ==
    \/ SetAttrs
    \/ RunValidate
    \/ RunPrepare
    \/ RunLedOn
    \/ RunWriteHeader
    \/ RunProgress
    \/ RunLoopExit
    \/ RunPttOn
    \/ RunPlayRecord
    \/ RunPttOff
    \/ RunProcessAudio
    \/ RunAppendOpen
    \/ RunAppendClose
    \/ RunAggLoad
    \/ RunAggRemove
    \/ RunTrialMove
    \/ RunTrialLoad
    \/ RunNoneMove
    \/ RunLedOff
    \/ RunFinally
    \/ PostOpen
    \/ PostRow
    \/ PostFinish
    \/ ReprocStart
    \/ ReprocNoChannels
    \/ ReprocRescore

Spec == Init /\ [][Next]_vars

\* the runs whose interface passes the entry checks of run()
InitValidated == Init /\ ConfigValid

SpecValidated == InitValidated /\ [][Next]_vars

(* ---------------------- reprocessing, other inputs -------------------- *)
\* mutant: the output is opened, and so truncated, before the input is read
ReprocInPlaceTruncating ==
    /\ pc = "done"
    /\ \E m \in Modes : intell_est' = m
    /\ test_dat' = LoadData([fsData[DataName] EXCEPT !.rows = << >>])
    /\ trials' = 0
    /\ ppFname' = DataName
    /\ ppRet' = "rp_done"
    /\ pc' = "pp_open"
    /\ UNCHANGED err
    /\ UNCHANGED <<get_post_notes, audio_interface, nclips, clipi>>
    /\ UNCHANGED <<ppn, speech, clip_num, success, trial, trial_dat, ret>>
    /\ UNCHANGED <<fileVars, envVars, logVars, ghostVars>>
    /\ UNCHANGED libVars
    /\ UNCHANGED keepVars

\* the reprocess script called with outfile equal to datafile:
\* load_test_data reads and closes the data file, then post_process
\* opens the same path for writing
ReprocInPlace ==
    /\ pc = "done"
    /\ \E m \in Modes : intell_est' = m
    /\ IF LoadOK(fsData[DataName])
       THEN /\ test_dat' = LoadData(fsData[DataName])
            /\ trials' = Len(fsData[DataName].rows)
            /\ ppFname' = DataName
            /\ ppRet' = "rp_done"
            /\ pc' = "pp_open"
            /\ UNCHANGED err
       ELSE /\ pc' = "rp_aborted"
            /\ err' = TRUE
            /\ UNCHANGED <<test_dat, trials, ppFname, ppRet>>
    /\ UNCHANGED <<get_post_notes, audio_interface, nclips, clipi>>
    /\ UNCHANGED <<ppn, speech, clip_num, success, trial, trial_dat, ret>>
    /\ UNCHANGED <<fileVars, envVars, logVars, ghostVars>>
    /\ UNCHANGED libVars
    /\ UNCHANGED keepVars

\* the file with one more column, named k, holding text in every row
WithColumn(file, k, text) ==
    [hdr  |-> Append(file.hdr, k),
     rows |-> [n \in 1..Len(file.rows) |-> Append(file.rows[n], text)]]

\* a new measure object in mode m loads a copy of the data file that has
\* an undeclared column and post-processes it to the output name
ReprocExtraColumn ==
    /\ pc = "done"
    /\ \E m \in Modes : intell_est' = m
    /\ LET file == WithColumn(fsData[DataName], "Extra", <<"1">>)
       IN  IF LoadOK(file)
           THEN /\ test_dat' = LoadData(file)
                /\ trials' = Len(file.rows)
                /\ ppFname' = OutName
                /\ ppRet' = "rp_done"
                /\ pc' = "pp_open"
                /\ UNCHANGED err
           ELSE /\ pc' = "rp_aborted"
                /\ err' = TRUE
                /\ UNCHANGED <<test_dat, trials, ppFname, ppRet>>
    /\ UNCHANGED <<get_post_notes, audio_interface, nclips, clipi>>
    /\ UNCHANGED <<ppn, speech, clip_num, success, trial, trial_dat, ret>>
    /\ UNCHANGED <<fileVars, envVars, logVars, ghostVars>>
    /\ UNCHANGED libVars
    /\ UNCHANGED keepVars

NextReproc ==
    \/ ReprocInPlace
    \/ ReprocExtraColumn
    \/ Next

\* runs on one clip through an interface that passes the entry checks
InitReproc ==
    /\ Init
    /\ nclips = 1
    /\ ConfigValid

SpecReproc == InitReproc /\ [][NextReproc]_vars

(* ------------------ a progress callback that declines ------------------ *)
NextProgress ==
    \/ PostRowDeclined
    \/ Next

SpecProgress == InitReproc /\ [][NextProgress]_vars

(* --------------------------- audio retention --------------------------- *)
\* the caller assigns save_audio and save_tx_audio, as the command line
\* mains do from --save-audio and --no-save-tx-audio
SetRetention ==
    /\ pc = "idle"
    /\ \E keep \in BOOLEAN, tx \in BOOLEAN :
          /\ save_audio' = keep
          /\ save_tx_audio' = tx
    /\ UNCHANGED <<pc, objVars, runVars, ppVars, fileVars, envVars, logVars,
                   ghostVars, libVars, txWritten>>

NextRetention ==
    \/ SetRetention
    \/ Next

\* one configuration that passes the entry checks, any retention flags
InitRetention ==
    /\ Init
    /\ trials = 1
    /\ nclips = 1
    /\ ConfigValid
    /\ Len(audio_interface.rec_chans) = 1

SpecRetention == InitRetention /\ [][NextRetention]_vars

(* ------------------- the library functions called directly ------------- *)
\* all sequences over S of length at most n
SeqsUpTo(S, n) == UNION {[1..k -> S] : k \in 0..n}

\* channel labels without ';' and ')': empty, plain, or holding '('
Labels == SeqsUpTo({"a", "("}, MaxLabelLen)

LabelTuples == SeqsUpTo(Labels, MaxLabels) \ {<< >>}

\* cell texts over the characters the channel pattern is sensitive to
CellTexts == SeqsUpTo({"a", "(", ")", ";"}, MaxCellLen)

\* parse_audio_chans(chans_to_string(L)) for a tuple L of labels
CallCodec ==
    /\ pc = "idle"
    /\ libOp = "none"
    /\ \E L \in LabelTuples :
          /\ libOp' = "codec"
          /\ libIn' = L
          /\ libOut' = LET text == chans_to_string(PyTuple(L))
                       IN  IF IsErr(text) THEN PyError
                           ELSE parse_audio_chans(text.v)
    /\ UNCHANGED <<pc, objVars, runVars, ppVars, fileVars, envVars, logVars,
                   ghostVars, keepVars>>

\* chans_to_string(chans) for a tuple of labels or a bare string
CallChansToString ==
    /\ pc = "idle"
    /\ libOp = "none"
    /\ \E chans \in {PyTuple(L) : L \in LabelTuples}
                      \cup {PyStr(l) : l \in Labels \cup {rx_voice}} :
          /\ libOp' = "chans_to_string"
          /\ libIn' = chans
          /\ libOut' = chans_to_string(chans)
    /\ UNCHANGED <<pc, objVars, runVars, ppVars, fileVars, envVars, logVars,
                   ghostVars, keepVars>>

\* parse_audio_chans(csv_str) for a cell text
CallParseAudioChans ==
    /\ pc = "idle"
    /\ libOp = "none"
    /\ \E csv_str \in CellTexts :
          /\ libOp' = "parse_audio_chans"
          /\ libIn' = csv_str
          /\ libOut' = parse_audio_chans(csv_str)
    /\ UNCHANGED <<pc, objVars, runVars, ppVars, fileVars, envVars, logVars,
                   ghostVars, keepVars>>

\* values a trial record can hold in each field, absent values included
StrVals == {PyStr(<<"t">>), PyStr(<<"t", ",", "u">>), PyStr(NoneText), PyNone}

TrialRecords ==
    {[k \in {data_fields[i] : i \in 1..Len(data_fields)} |->
         CASE k = "Timestamp"       -> ts
           [] k = "Filename"        -> fn
           [] k = "channels"        -> ch
           [] k = "Over_runs"       -> ov
           [] k = "Under_runs"      -> un
           [] k = "Intelligibility" -> sc] :
       ts \in StrVals, fn \in StrVals,
       ch \in {PyTuple(<<rx_voice>>), PyTuple(<<PTT_signal, rx_voice>>), PyNone},
       ov \in {PyInt(0), PyInt(1), PyNone},
       un \in {PyInt(0), PyNone},
       sc \in {PyFloat(k) : k \in 0..ScoreDen} \cup {PyNaN, PyNone}}

\* the row dictionary of a record: the channel tuple is held as the text
\* that chans_to_string gives, as process_audio and post_process store it
TrialRow(dat) ==
    [dat EXCEPT !["channels"] = IF @.ty = "tuple" THEN chans_to_string(@) ELSE @]

\* what load_test_data returns for (or raises on) a single converted row
Loaded(row) == [ty |-> IF RowOK(row) THEN "row" ELSE "error", v |-> row]

\* a record written with the row format of csv_header_fmt under its header
\* and read back with load_test_data
CallWriteRead ==
    /\ pc = "idle"
    /\ libOp = "none"
    /\ \E dat \in TrialRecords :
          LET hf   == csv_header_fmt
              line == FormatLine(hf.fmt, TrialRow(dat))
          IN  /\ libOp' = "write_read"
              /\ libIn' = dat
              /\ libOut' = [ty      |-> Loaded(LoadLine(hf.hdr, line)).ty,
                            v       |-> LoadLine(hf.hdr, line),
                            written |-> FormatRow(hf.fmt, TrialRow(dat)),
                            cells   |-> ReadLine(line)]
    /\ UNCHANGED <<pc, objVars, runVars, ppVars, fileVars, envVars, logVars,
                   ghostVars, keepVars>>

\* a header with declared columns and one undeclared column
ForeignHeader == <<"Filename", "channels", "Over_runs", "Intelligibility",
                   "Extra">>

\* cell texts: the token None, an integer, a float, nan, a channel list, a word
CellSamples == {NoneText, <<"1">>, <<"2", ".">>, NanText,
                <<"(", "a", ")">>, <<"a">>}

\* load_test_data on a file with one row of given cells
CallLoadTestData ==
    /\ pc = "idle"
    /\ libOp = "none"
    /\ \E cells \in [1..Len(ForeignHeader) -> CellSamples] :
          /\ libOp' = "load_test_data"
          /\ libIn' = [hdr |-> ForeignHeader, cells |-> cells]
          /\ libOut' = Loaded(LoadLine(ForeignHeader, Join(cells, <<",">>)))
    /\ UNCHANGED <<pc, objVars, runVars, ppVars, fileVars, envVars, logVars,
                   ghostVars, keepVars>>

\* recordings of one or two channels at the scorer's rate or another
TestRecordings ==
    {[fs |-> f, data |-> d] :
        f \in {abcmrt_fs, 44100},
        d \in UNION {[1..n -> {PyWave(w) : w \in 0..MaxWave}] : n \in 1..2}}

TestChans ==
    {PyTuple(<<rx_voice>>), PyTuple(<<PTT_signal, rx_voice>>),
     PyTuple(<<rx_voice, PTT_signal>>), PyTuple(<<PTT_signal>>),
     PyTuple(<<PTT_signal, tx_voice>>)}

\* process_audio(fname, rec_chans) on a recording stored under fname
CallProcessAudio ==
    /\ pc = "idle"
    /\ libOp = "none"
    /\ \E rec \in TestRecordings, rec_chans \in TestChans, m \in Modes :
          LET fname  == RxName(1, ClipName(0))
              store  == [f \in {fname} |-> rec]
              raised == ProcessAudioRaises(store, fname, rec_chans)
          IN  /\ libOp' = "process_audio"
              /\ libIn' = [rec |-> rec, rec_chans |-> rec_chans, mode |-> m]
              /\ libOut' = IF raised # "none"
                           THEN [ty |-> "error", v |-> raised]
                           ELSE [ty |-> "dict",
                                 v  |-> process_audio(store, fname, rec_chans, m)]
    /\ UNCHANGED <<pc, objVars, runVars, ppVars, fileVars, envVars, logVars,
                   ghostVars, keepVars>>

(* ------------------------------ evaluate.eval -------------------------- *)
MaxData == 2        \* longest Intelligibility column evaluated

\* the Intelligibility column of the loaded csv: scores as numerators
\* over ScoreDen
Columns == SeqsUpTo(0..ScoreDen, MaxData) \ {<< >>}

\* confidence levels, in percent
Levels == {90, 95}

Methods == {"t", "percentile"}

RECURSIVE SumN(_)
SumN(s) == IF Len(s) = 0 THEN 0 ELSE s[1] + SumN(Tail(s))

\* np.mean of the column, as a fraction
ColumnMean(data) == [num |-> SumN(data), den |-> Len(data) * ScoreDen]

\* mcvqoe.math.bootstrap_ci is called, not defined, by this repository:
\* a call returns an interval <<lo, hi>> or, under
\* np.errstate(divide='raise'), raises FloatingPointError
Intervals == {iv \in (0..ScoreDen) \X (0..ScoreDen) : iv[1] <= iv[2]}

BootRaise == [ty |-> "raise", v |-> <<0, 0>>]

BootOutcomes == {BootRaise} \cup {[ty |-> "ci", v |-> iv] : iv \in Intervals}

\* the calls eval makes and what it hands back, given the outcome of the
\* first bootstrap call and the interval of the second one
eval_fallback_default_p(data, p, method, first, second) ==
    LET mean  == ColumnMean(data)
        call1 == [p |-> p, method |-> method]
        call2 == [p |-> 95, method |-> "percentile"]
    IN  IF first.ty = "ci"
        THEN [boot |-> <<call1>>, warned |-> FALSE, raised |-> FALSE,
              mean |-> mean, ci |-> first.v]
        ELSE [boot |-> <<call1, call2>>, warned |-> TRUE, raised |-> FALSE,
              mean |-> mean, ci |-> second]

eval(data, p, method, first, second) ==
    LET mean  == ColumnMean(data)
        call1 == [p |-> p, method |-> method]
        call2 == [p |-> p, method |-> "percentile"]
    IN  IF first.ty = "ci"
        THEN [boot |-> <<call1>>, warned |-> FALSE, raised |-> FALSE,
              mean |-> mean, ci |-> first.v]
        ELSE [boot |-> <<call1, call2>>, warned |-> TRUE, raised |-> FALSE,
              mean |-> mean, ci |-> second]

\* eval_obj.eval(p, method) on a loaded column; only the studentized
\* method divides, so only it can raise
CallEval ==
    /\ pc = "idle"
    /\ libOp = "none"
    /\ \E data \in Columns, p \in Levels, method \in Methods,
          first \in BootOutcomes, second \in Intervals :
          /\ method = "percentile" => first.ty = "ci"
          /\ libOp' = "eval"
          /\ libIn' = [data |-> data, p |-> p, method |-> method,
                       first |-> first, second |-> second]
          /\ libOut' = eval(data, p, method, first, second)
    /\ UNCHANGED <<pc, objVars, runVars, ppVars, fileVars, envVars, logVars,
                   ghostVars, keepVars>>

(* ------------------- reprocessing one row, as text -------------------- *)
\* rows of a csv file that has the declared columns and a value in every
\* cell, as csv.DictReader hands them over: a time stamp (one of them a
\* quoted field with a comma), a clip name, a channel list as written or
\* with a leading blank, the counters and a score
FullRows ==
    {<<ts, <<"c", "0">>, ch, ov, <<"0">>, sc>> :
        ts \in {<<"t">>, <<"t", ",", "u">>},
        ch \in {chans_to_string(PyTuple(<<rx_voice>>)).v,
                <<" ">> \o chans_to_string(PyTuple(<<PTT_signal, rx_voice>>)).v},
        ov \in {<<"0">>, <<"1">>},
        sc \in {<<"1">>, <<"1", ".">>, NanText}}

\* the line post_process writes in none mode for a loaded row
NoneLine(row) == FormatLine(csv_header_fmt.fmt, Merged("none", row, << >>))

\* load_test_data and post_process in none mode on a file of one row, and
\* the same again on the file written
CallReprocessNone ==
    /\ pc = "idle"
    /\ libOp = "none"
    /\ \E cells \in FullRows :
          LET hdr   == csv_header_fmt.hdr
              row1  == LoadRow(hdr, cells)
              line1 == NoneLine(row1)
              row2  == LoadLine(hdr, line1)
          IN  /\ libOp' = "reprocess_none"
              /\ libIn' = cells
              /\ libOut' = [loaded1 |-> Loaded(row1),
                            line1   |-> line1,
                            loaded2 |-> Loaded(row2),
                            line2   |-> IF RowOK(row2) /\ MergeOK("none", row2)
                                        THEN NoneLine(row2) ELSE << >>]
    /\ UNCHANGED <<pc, objVars, runVars, ppVars, fileVars, envVars, logVars,
                   ghostVars, keepVars>>

(* ------------------------ evaluate: json export ------------------------ *)
MaxTests == 2       \* longest list of test names given to evaluate

\* a test name: directory part, base name and extension
TestNames == [dir : {"", "a", "b"}, base : {"x", "y"}, ext : {"", ".csv"}]

TestLists == SeqsUpTo(TestNames, MaxTests) \ {<< >>}

\* evaluate.__init__: the name kept for a test is the base name without
\* path and extension
NameOf(t) == t.base

\* evaluate.__init__: a bare name without .csv is looked up in
\* test_path/csv, anything else is the file itself
PathOf(t) ==
    IF t.dir = "" /\ t.ext # ".csv"
    THEN [dir |-> "csv", base |-> t.base, ext |-> ".csv"]
    ELSE t

\* d[k] = v on a dict kept as the list of its items in insertion order
DictSet(d, k, v) ==
    IF \E i \in 1..Len(d) : d[i].key = k
    THEN [i \in 1..Len(d) |-> IF d[i].key = k THEN [key |-> k, value |-> v]
                                              ELSE d[i]]
    ELSE Append(d, [key |-> k, value |-> v])

RECURSIVE DictOf(_, _)
\* the dict made by assigning the items of a list in order, starting from d
DictOf(d, items) ==
    IF Len(items) = 0 THEN d
    ELSE DictOf(DictSet(d, items[1].key, items[1].value), Tail(items))

\* to_json: test_info[tname] = tpath for the zipped names and paths; the
\* json text lists the members of the dict in order
to_json(names, paths) ==
    DictOf(<< >>, [i \in 1..Len(names) |-> [key |-> names[i], value |-> paths[i]]])

\* load_json_data: json.loads builds the dict from the members, the names
\* and paths are its keys and values in order
load_json_data(json_data) ==
    LET test_info == DictOf(<< >>, json_data)
    IN  [test_names |-> [i \in 1..Len(test_info) |-> test_info[i].key],
         full_paths |-> [i \in 1..Len(test_info) |-> test_info[i].value]]

\* e = evaluate(tests), then evaluate(json_data=e.to_json())
CallJsonRoundTrip ==
    /\ pc = "idle"
    /\ libOp = "none"
    /\ \E tests \in TestLists :
          LET names == [i \in 1..Len(tests) |-> NameOf(tests[i])]
              paths == [i \in 1..Len(tests) |-> PathOf(tests[i])]
          IN  /\ libOp' = "json"
              /\ libIn' = [test_names |-> names, full_paths |-> paths]
              /\ libOut' = load_json_data(to_json(names, paths))
    /\ UNCHANGED <<pc, objVars, runVars, ppVars, fileVars, envVars, logVars,
                   ghostVars, keepVars>>

NextLib ==
    \/ CallProcessAudio
    \/ CallCodec
    \/ CallChansToString
    \/ CallParseAudioChans
    \/ CallWriteRead
    \/ CallLoadTestData
    \/ CallEval
    \/ CallReprocessNone
    \/ CallJsonRoundTrip

\* one measure object, never run, whose functions are called directly
InitLib ==
    /\ Init
    /\ trials = 1
    /\ nclips = 1
    /\ ConfigValid
    /\ Len(audio_interface.rec_chans) = 1

SpecLib == InitLib /\ [][NextLib]_vars

(* ======================= properties of run() =========================== *)
\* the states of the measurement loop
InCapture ==
    pc \in {"progress", "ptt_on", "play", "ptt_off", "process",
            "append", "append_close"}

\* text of the channels cell of a captured row
ExpChanText ==
    IF Len(audio_interface.rec_chans) = 1
    THEN <<"(">> \o audio_interface.rec_chans[1] \o <<")">>
    ELSE <<"(">> \o audio_interface.rec_chans[1] \o <<";">>
               \o audio_interface.rec_chans[2] \o <<")">>

\* score of trial i (0-based) as the scorer gives it for what was received
ExpScore(i) == (played[i + 1] + clipi[i + 1]) % (ScoreDen + 1)

\* text of the Intelligibility cell of the row of trial i
ExpScoreText(i) ==
    IF mode0 = "trial" THEN <<Digits[ExpScore(i) + 1], ".">> ELSE NanText

\* the complete row of trial i (0-based), in header order
ExpRow(i) ==
    <<TimeText(i), ClipName(clipi[i + 1]), ExpChanText, <<"0">>, <<"0">>,
      ExpScoreText(i)>>

\* a file made of the header and the rows of trials 0..k-1
HoldsTrials(file, k) ==
    /\ file.hdr = <<"Timestamp", "Filename", "channels",
                    "Over_runs", "Under_runs", "Intelligibility">>
    /\ Len(file.rows) = k
    /\ \A i \in 1..k : file.rows[i] = ExpRow(i - 1)

\* C1: in every state of the capture loop the temp CSV on disk holds the
\* header and exactly one complete row per finished trial, in trial order;
\* a trial keys the channel and plays only when the rows of all recordings
\* made so far are on disk and the temp file is closed.
C1_WriteAhead ==
    InCapture =>
        /\ TempName \in fsExists
        /\ HoldsTrials(fsData[TempName], trial)
        /\ pc \in {"progress", "ptt_on", "play"} =>
              /\ wopen = "none"
              /\ Len(played) = Len(fsData[TempName].rows)

\* C1 witness: the second trial is about to key with one row on disk
C1_Witness ==
    /\ pc = "ptt_on"
    /\ trial = 1
    /\ Len(fsData[TempName].rows) = 1

\* C2: when the progress callback first returns False at trial k, run()
\* returns with a final CSV holding exactly the rows of trials 0..k-1.
C2_CancelKeepsRows ==
    (pc = "done" /\ cancelAt >= 0) =>
        /\ DataName \in fsExists
        /\ HoldsTrials(fsData[DataName], cancelAt)
        /\ cancelAt < Len(clipi)

\* C2 witness: an aggregate run cancelled at trial 1 has returned
C2_Witness ==
    /\ pc = "done"
    /\ cancelAt = 1
    /\ mode0 = "aggregate"
    /\ Len(fsData[DataName].rows) = 1

\* the run() part of the execution (before any reprocessing)
InRun == ppRet # "rp_done"

\* C3: in aggregate mode the scorer is never called per trial; the batch
\* scorer is called exactly once, after the last trial, with the waveform
\* and clip number of every captured trial in capture order.
C3_AggregateBatchOnce ==
    (mode0 = "aggregate" /\ InRun) =>
        /\ Len(scorerCalls) <= 1
        /\ \A i \in 1..Len(scorerCalls) :
              /\ scorerCalls[i].kind = "batch"
              /\ pc \in {"agg_remove", "led_off", "finally", "done", "aborted"}
              /\ Len(scorerCalls[i].speech) = Len(played)
              /\ Len(scorerCalls[i].nums) = Len(played)
              /\ \A j \in 1..Len(played) :
                    /\ scorerCalls[i].speech[j].v = played[j]
                    /\ scorerCalls[i].nums[j] = clipi[j]
        /\ pc = "done" => Len(scorerCalls) = 1

\* C3 witness: an aggregate run of two trials with different recordings
C3_Witness ==
    /\ pc = "done"
    /\ mode0 = "aggregate"
    /\ Len(played) = 2
    /\ played[1] # played[2]
    /\ Len(scorerCalls) = 1

\* the per-trial scores of the captured trials, in order
ExpScores == [i \in 1..Len(played) |-> [ty |-> "float", v |-> ExpScore(i - 1)]]

\* C4: in trial mode the scorer is called once per captured trial, in
\* order, and not during finalization; run() returns the guess correction
\* of the mean of those scores.
C4_TrialScoring ==
    (mode0 = "trial" /\ InRun) =>
        /\ Len(scorerCalls) <= Len(played)
        /\ \A i \in 1..Len(scorerCalls) :
              /\ scorerCalls[i].kind = "one"
              /\ scorerCalls[i].speech[1].v = played[i]
              /\ scorerCalls[i].nums = <<clipi[i]>>
        /\ pc \in {"append", "append_close"} => Len(scorerCalls) = trial + 1
        /\ pc \in {"progress", "cleanup", "trial_load", "pp_open", "pp_row",
                   "led_off", "done"} => Len(scorerCalls) = Len(played)
        /\ pc = "done" => ret = guess_correction(Mean(ExpScores))

\* C4 witness: a trial-mode run of two trials returned a defined estimate
C4_Witness ==
    /\ pc = "done"
    /\ mode0 = "trial"
    /\ Len(played) = 2
    /\ Len(scorerCalls) = 2
    /\ ret.den > 0
    /\ ret.num > 0

\* C5: in none mode the scorer is never called, every row of the final
\* CSV has a NaN Intelligibility and run() returns NaN.
C5_NoneNoScoring ==
    (mode0 = "none" /\ InRun) =>
        /\ scorerCalls = << >>
        /\ pc = "done" =>
              /\ \A i \in 1..Len(fsData[DataName].rows) :
                    fsData[DataName].rows[i][6] = <<"n", "a", "n">>
              /\ ret = [num |-> 0, den |-> 0]

\* C5 witness: a none-mode run returned with two rows in the final CSV
C5_Witness ==
    /\ pc = "done"
    /\ mode0 = "none"
    /\ Len(fsData[DataName].rows) = 2

\* the Intelligibility cells of a file hold no value
NoScoreIn(file) ==
    \A i \in 1..Len(file.rows) :
        file.rows[i][6] \in {<<"n", "a", "n">>, <<"N", "o", "n", "e">>}

\* C6 (as claimed): the CSV post_process writes in aggregate mode carries
\* no intelligibility value in any row, whatever the input rows carry.
C6_AggregateCsvNoScore ==
    /\ (pc = "rp_done" /\ intell_est = "aggregate") => NoScoreIn(fsData[OutName])
    /\ pc = "agg_remove" => NoScoreIn(fsData[DataName])

\* the estimate the batch scorer gives for the captured recordings
ExpBatchEstimate == guess_correction(Mean(ExpScores))

\* C6 (amended): the CSV post_process writes in aggregate mode carries in
\* every row the Intelligibility value of the input row, unchanged (NaN for
\* rows captured by an aggregate run, the old score for rows that carry
\* one); no newly computed score is written and the return value is the
\* batch estimate.
C6_AggregateCsvKeepsInputScore ==
    /\ (pc = "rp_done" /\ intell_est = "aggregate") =>
          /\ Len(fsData[OutName].rows) = Len(fsData[DataName].rows)
          /\ \A i \in 1..Len(fsData[OutName].rows) :
                ParseFloat(fsData[OutName].rows[i][6]) =
                    ParseFloat(fsData[DataName].rows[i][6])
          /\ ret = ExpBatchEstimate
    /\ pc = "agg_remove" =>
          /\ Len(fsData[DataName].rows) = Len(fsData[TempName].rows)
          /\ \A i \in 1..Len(fsData[DataName].rows) :
                ParseFloat(fsData[DataName].rows[i][6]) =
                    ParseFloat(fsData[TempName].rows[i][6])
          /\ ret = ExpBatchEstimate

\* C6 witness: the file of a trial-mode run, whose rows carry scores, has
\* been post-processed in aggregate mode
C6_Witness ==
    /\ pc = "rp_done"
    /\ intell_est = "aggregate"
    /\ mode0 = "trial"
    /\ Len(fsData[OutName].rows) = 2
    /\ ~NoScoreIn(fsData[OutName])

\* the interface fails one of the entry checks of run()
BadConfig ==
    \/ audio_interface.sample_rate # 48000
    \/ \A i \in 1..Len(audio_interface.playback_chans) :
          audio_interface.playback_chans[i] # tx_voice
    \/ \A i \in 1..Len(audio_interface.rec_chans) :
          audio_interface.rec_chans[i] # rx_voice

\* C7: a configuration with a wrong sample rate or without tx_voice or
\* rx_voice is rejected by run() before any device call and before any
\* directory, file or log entry is created.
C7_ValidationFirst ==
    BadConfig =>
        /\ pc \in {"idle", "ready", "aborted"}
        /\ pc = "aborted" => err
        /\ calls = << >>
        /\ progCalls = << >>
        /\ ~dirs
        /\ ~logPre
        /\ fsExists = {DevNull}
        /\ DOMAIN wavs = {}

\* C7 witness: run() has rejected an interface that records no rx_voice
C7_Witness ==
    /\ pc = "aborted"
    /\ audio_interface.sample_rate = 48000
    /\ audio_interface.playback_chans = <<tx_voice>>
    /\ audio_interface.rec_chans = <<PTT_signal>>

\* C8 (as claimed): on every exit path of run() the end-of-run step that
\* collects the post-test notes and closes the log entry has been executed,
\* also for an object whose get_post_notes is as the constructor left it.
C8_EndStepAlways == pc \in {"done", "aborted"} => logPost

\* number of calls named c made so far
CountCalls(c) == Cardinality({i \in 1..Len(calls) : calls[i] = c})

\* C9: when keying, play/record or audio extraction fails during trial k,
\* the error leaves run() without a retry of the trial, the temp file
\* stays with the header and the k rows of the completed trials, and no
\* final CSV exists.
C9_CaptureFailure ==
    failAt >= 0 =>
        /\ pc \in {"finally", "aborted"}
        /\ err
        /\ trial = failAt
        /\ CountCalls("ptt_on") = failAt + 1
        /\ CountCalls("play_record") <= failAt + 1
        /\ wopen = "none"
        /\ TempName \in fsExists
        /\ HoldsTrials(fsData[TempName], failAt)
        /\ DataName \notin fsExists

\* C9 witness: play/record failed during trial 1, after one completed trial
C9_Witness ==
    /\ pc = "aborted"
    /\ failAt = 1
    /\ CountCalls("play_record") = 2
    /\ Len(played) = 1
    /\ Len(fsData[TempName].rows) = 1

\* C10: when run() returns normally the final CSV exists and the temp file
\* does not.
C10_FinalReplacesTemp ==
    pc = "done" => (DataName \in fsExists /\ TempName \notin fsExists)

\* C10 witness: an aggregate run with a captured row has returned
C10_Witness ==
    /\ pc = "done"
    /\ mode0 = "aggregate"
    /\ Len(fsData[DataName].rows) >= 1

\* C11 as claimed: for every non-empty tuple L of labels without ';' and
\* ')' (empty labels and labels holding '(' included),
\* parse_audio_chans(chans_to_string(L)) returns the labels of L in order
C11_RoundTrip ==
    libOp = "codec" => libOut = PyTuple(libIn)

\* C11 amended: the round trip returns the labels of L in order for every
\* such L except the tuple holding one empty label, whose text '()' has
\* nothing between the parentheses and is rejected by parse_audio_chans
C11_RoundTripUnlessBlank ==
    libOp = "codec" =>
        IF libIn = << << >> >> THEN IsErr(libOut)
        ELSE libOut = PyTuple(libIn)

\* C11 witness: an empty label followed by a label made of '(' came back
C11_Witness ==
    /\ libOp = "codec"
    /\ Len(libIn) = 2
    /\ libIn[1] = << >>
    /\ libIn[2] = <<"(">>
    /\ libOut = PyTuple(libIn)

\* a '(' followed by at least one character other than ')' and then a ')'
HasChanPattern(s) ==
    \E i \in 1..(Len(s) - 2) :
        /\ s[i] = "("
        /\ s[i + 1] # ")"
        /\ \E j \in (i + 2)..Len(s) : s[j] = ")"

\* C12: chans_to_string raises for every bare string, and parse_audio_chans
\* raises for every cell without '(' + one or more characters + ')'; neither
\* returns a value then
C12_Rejects ==
    /\ (libOp = "chans_to_string" /\ libIn.ty = "str") => IsErr(libOut)
    /\ (libOp = "parse_audio_chans" /\ ~HasChanPattern(libIn)) => IsErr(libOut)
    /\ (libOp = "parse_audio_chans" /\ HasChanPattern(libIn)) => ~IsErr(libOut)

\* C12 witness: the bare string 'rx_voice' was refused
C12_Witness ==
    /\ libOp = "chans_to_string"
    /\ libIn = PyStr(rx_voice)
    /\ IsErr(libOut)

\* every field of the record holds a value of its declared domain
Populated(dat) == \A k \in DOMAIN dat : dat[k].ty # "None"

\* C13 as claimed: a record whose fields are all populated in their declared
\* domains, written with the row format and read back with load_test_data,
\* comes back equal, also when a string field holds a comma or is 'None'
C13_RowRoundTrip ==
    (libOp = "write_read" /\ Populated(libIn)) =>
        (~IsErr(libOut) /\ libOut.v = libIn)

\* C14: an absent field is written as the token None, and every cell that
\* holds the token None is loaded as absent, whatever its column, never as
\* the result of the column's parser or a default of its type
C14_NoneToken ==
    /\ libOp = "write_read" =>
          /\ \A i \in 1..Len(data_fields) :
                libIn[data_fields[i]] = PyNone => libOut.written[i] = NoneText
          /\ \A i \in 1..Len(data_fields) :
                (i <= Len(libOut.cells) /\ libOut.cells[i] = NoneText)
                    => libOut.v[data_fields[i]] = PyNone
    /\ libOp = "load_test_data" =>
          \A i \in 1..Len(libIn.hdr) :
              libIn.cells[i] = NoneText => libOut.v[libIn.hdr[i]] = PyNone

\* C14 witness: a record without overrun count and score came back with
\* both absent and everything else as it was
C14_Witness ==
    /\ libOp = "write_read"
    /\ libIn["Over_runs"] = PyNone
    /\ libIn["Intelligibility"] = PyNone
    /\ libIn["Filename"] = PyStr(<<"t">>)
    /\ libOut.written[4] = NoneText
    /\ libOut.written[6] = NoneText
    /\ ~IsErr(libOut)
    /\ libOut.v = libIn

\* C16: a cell of an undeclared column is converted by float(), the column
\* being there is no error, and a cell of a declared column is converted by
\* the parser declared for it (cells holding the token None apart, which
\* are absent values)
C16_FloatFallback ==
    libOp = "load_test_data" =>
        LET cell(k) == libIn.cells[CHOOSE i \in 1..Len(libIn.hdr) :
                                       libIn.hdr[i] = k]
            got(k)  == libOut.v[k]
            val(k)  == cell(k) # NoneText
        IN  /\ DOMAIN libOut.v = {libIn.hdr[i] : i \in 1..Len(libIn.hdr)}
            /\ val("Extra") => got("Extra") = ParseFloat(cell("Extra"))
            /\ cell("Extra") = <<"1">> => got("Extra") = PyFloat(1)
            /\ cell("Extra") = <<"2", ".">> => got("Extra") = PyFloat(2)
            /\ cell("Extra") = NanText => got("Extra") = PyNaN
            /\ cell("Extra") \in {<<"a">>, <<"(", "a", ")">>}
                  => IsErr(got("Extra"))
            /\ val("Filename") => got("Filename") = PyStr(cell("Filename"))
            /\ val("channels")
                  => got("channels") = parse_audio_chans(cell("channels"))
            /\ val("Over_runs") => got("Over_runs") = ParseInt(cell("Over_runs"))
            /\ cell("Over_runs") = <<"1">> => got("Over_runs") = PyInt(1)
            /\ cell("Over_runs") = <<"2", ".">> => IsErr(got("Over_runs"))
            /\ val("Intelligibility")
                  => got("Intelligibility") = ParseFloat(cell("Intelligibility"))
            /\ IsErr(libOut) <=> \E k \in DOMAIN libOut.v : IsErr(got(k))

\* C16 witness: the same text '1' loaded as a float in the undeclared
\* column and as an integer in Over_runs, the load succeeding
C16_Witness ==
    /\ libOp = "load_test_data"
    /\ libIn.cells[5] = <<"1">>
    /\ libIn.cells[3] = <<"1">>
    /\ libOut.v["Extra"] = PyFloat(1)
    /\ libOut.v["Over_runs"] = PyInt(1)
    /\ ~IsErr(libOut)

\* the six column names in the order of their declaration
HeaderNames == <<"Timestamp", "Filename", "channels",
                 "Over_runs", "Under_runs", "Intelligibility">>

\* a row has its six values in the order of the header: time stamp, clip
\* name, channel list, the two counters and a score
InHeaderOrder(i, row) ==
    /\ Len(row) = 6
    /\ row[1] = TimeText(i - 1)
    /\ row[2] = ClipName(clipi[i])
    /\ row[3] = ExpChanText
    /\ ~IsErr(ParseInt(row[4]))
    /\ ~IsErr(ParseInt(row[5]))
    /\ ~IsErr(ParseFloat(row[6]))

\* C15: the header and the row format of csv_header_fmt list the columns of
\* data_fields in insertion order, and every file written by run() or
\* post_process() starts with that header (once its first write is on disk)
\* and has the values of every row in that column order
C15_HeaderAndOrder ==
    /\ csv_header_fmt.hdr = HeaderNames
    /\ csv_header_fmt.fmt = HeaderNames
    /\ \A p \in fsExists \ {DevNull} :
          /\ \/ fsData[p].hdr = HeaderNames
             \/ wopen = p /\ fsData[p] = EmptyFile
          /\ \A i \in 1..Len(fsData[p].rows) : InHeaderOrder(i, fsData[p].rows[i])
    /\ wopen # "none" =>
          /\ wbuf.hdr \in {<< >>, HeaderNames}
          /\ \A i \in 1..Len(wbuf.rows) :
                InHeaderOrder(Len(fsData[wopen].rows) + i, wbuf.rows[i])

\* C15 witness: the data file of a run and the file the reprocess script
\* wrote from it, each with the header and two rows
C15_Witness ==
    /\ pc = "rp_done"
    /\ fsData[DataName].hdr = HeaderNames
    /\ fsData[OutName].hdr = HeaderNames
    /\ Len(fsData[DataName].rows) = 2
    /\ Len(fsData[OutName].rows) = 2
    /\ FALSE \notin {InHeaderOrder(i, fsData[OutName].rows[i]) : i \in 1..2}

\* C17 as claimed: post_process leaves its input alone: when it has
\* returned, in any mode, every row of test_dat has the keys and values it
\* was loaded with, channels being the parsed tuple
C17_InputUntouched ==
    /\ pc = "agg_remove" => test_dat = LoadData(fsData[TempName])
    /\ pc = "rp_done" => test_dat = LoadData(fsData[DataName])
    /\ (pc = "led_off" /\ mode0 = "trial") => test_dat = LoadData(fsData[DataName])

\* C18 as claimed: for a row without channels post_process uses the
\* one-element tuple ('rx_voice',) and handles the row: nothing fails at
\* such a row except, where audio is read, the reading of the audio
C18_ChannelFallback ==
    (ppRet = "rp_done" /\ ppn < Len(test_dat)
       /\ "channels" \notin DOMAIN test_dat[ppn + 1]) =>
        /\ pc = "pp_row" => RowChans(test_dat[ppn + 1]) = PyTuple(<<rx_voice>>)
        /\ pc = "rp_aborted" => LoadsAudio(intell_est)

\* C20 as claimed: every waveform given to the scorer, and every waveform
\* process_audio returns for the batch, is the floating-point waveform that
\* audio_float makes, never the integer samples of the file
C20_ScorerGetsFloat ==
    /\ \A i \in 1..Len(scorerCalls) :
          \A j \in 1..Len(scorerCalls[i].speech) :
              scorerCalls[i].speech[j].ty = "float32"
    /\ \A j \in 1..Len(speech) : speech[j].ty = "float32"

\* 1-based place of the label rx_voice in a tuple of labels, 0 if absent
PlaceOfVoice(labels) ==
    IF \E i \in 1..Len(labels) : labels[i] = rx_voice
    THEN CHOOSE i \in 1..Len(labels) :
             labels[i] = rx_voice /\ \A j \in 1..(i - 1) : labels[j] # rx_voice
    ELSE 0

\* what C19 says of the result, the exception for a missing label being e
VoiceChannelRule(e) ==
    libOp = "process_audio" =>
        LET rec    == libIn.rec
            place  == PlaceOfVoice(libIn.rec_chans.v)
            mono   == Len(rec.data) = 1
            rateOK == rec.fs = 48000
        IN  /\ (rateOK /\ mono) =>
                  (~IsErr(libOut) /\ libOut.v.voice = rec.data[1])
            /\ (rateOK /\ ~mono /\ place > 0) =>
                  (~IsErr(libOut) /\ libOut.v.voice = rec.data[place])
            /\ (rateOK /\ ~mono /\ place = 0) =>
                  (IsErr(libOut) /\ libOut.v = e)
            /\ ~rateOK => (IsErr(libOut) /\ libOut.v = "RuntimeError")

\* C19 as claimed: a one-channel recording is returned unchanged as the
\* voice, a multi-channel one gives the column at the place of rx_voice in
\* the labels, and process_audio fails with RuntimeError when rx_voice is
\* not among the labels of a multi-channel recording and when the sample
\* rate is not the scorer's
C19_VoiceChannel == VoiceChannelRule("RuntimeError")

\* C19 amended: the same, except that a multi-channel recording without
\* rx_voice among its labels (its rate being right) fails with ValueError
C19_VoiceChannelValueError == VoiceChannelRule("ValueError")

\* C19 witness: label rx_voice second, and the second column, which differs
\* from the first, came back as the voice
C19_Witness ==
    /\ libOp = "process_audio"
    /\ libIn.rec_chans = PyTuple(<<PTT_signal, rx_voice>>)
    /\ Len(libIn.rec.data) = 2
    /\ libIn.rec.data[1] # libIn.rec.data[2]
    /\ ~IsErr(libOut)
    /\ libOut.v.voice = libIn.rec.data[2]

\* the text 'Rx{n}_{clip}.wav', n being written with one digit
RxText(n, clip) ==
    <<"R", "x", Digits[n + 1], "_">> \o clip \o <<".", "w", "a", "v">>

\* C22: trial t of run() records to 'Rx{t+1}_{c}.wav' and writes the clip
\* name c as Filename; post_process builds 'Rx{n+1}_{Filename}.wav' for row
\* n, which for every row of a run, complete or cancelled, names the
\* recording captured for that row
C22_RowRecording ==
    /\ pc = "ptt_off" =>
          /\ CurRxName = RxText(trial + 1, ClipName(clipi[trial + 1]))
          /\ DOMAIN wavs = {RxText(i, ClipName(clipi[i])) : i \in 1..(trial + 1)}
    /\ pc = "append" => trial_dat["Filename"] = PyStr(ClipName(clipi[trial + 1]))
    /\ (pc = "pp_row" /\ ppn < Len(test_dat)) =>
          LET row  == test_dat[ppn + 1]
              name == RowClipName(ppn + 1, row)
          IN  /\ row["Filename"] = PyStr(ClipName(clipi[ppn + 1]))
              /\ name = RxText(ppn + 1, row["Filename"].v)
              /\ name \in DOMAIN wavs
              /\ \E c \in 1..Len(wavs[name].data) :
                    /\ audio_interface.rec_chans[c] = rx_voice
                    /\ wavs[name].data[c].v = played[ppn + 1]

\* C22 witness: the aggregate pass of a run whose two trials received
\* different samples is at its second row
C22_Witness ==
    /\ pc = "pp_row"
    /\ ppRet = "agg_remove"
    /\ ppn = 1
    /\ Len(test_dat) = 2
    /\ played[1] # played[2]
    /\ speech[1].v = played[1]

\* the device calls of the trials, in the order they were made
TrialCalls ==
    SelectSeq(calls, LAMBDA c : c \in {"ptt_on", "ptt_wait", "play_record",
                                        "ptt_off", "ptt_gap"})

\* the keying calls, in the order they were made
PttCalls == SelectSeq(calls, LAMBDA c : c \in {"ptt_on", "ptt_off"})

\* the channel is keyed: the last keying call was ptt(True)
Keyed == Len(PttCalls) > 0 /\ PttCalls[Len(PttCalls)] = "ptt_on"

\* C26: each trial keys the channel, waits, plays and records, unkeys,
\* waits for the gap, extracts the voice (scoring it in trial mode) and
\* appends the row, in that order; the channel is keyed during play_record,
\* not keyed during extraction, scoring and the row write, and ptt(True)
\* and ptt(False) alternate
C26_TrialOrder ==
    /\ \A i \in 1..Len(TrialCalls) :
          TrialCalls[i] = <<"ptt_on", "ptt_wait", "play_record",
                            "ptt_off", "ptt_gap">>[((i - 1) % 5) + 1]
    /\ \A i \in 1..Len(PttCalls) :
          PttCalls[i] = IF i % 2 = 1 THEN "ptt_on" ELSE "ptt_off"
    /\ pc \in {"progress", "ptt_on"} => (Len(TrialCalls) = 5 * trial /\ ~Keyed)
    /\ pc = "play" => (Len(TrialCalls) = 5 * trial + 2 /\ Keyed)
    /\ pc = "ptt_off" => (Len(TrialCalls) = 5 * trial + 3 /\ Keyed)
    /\ pc \in {"process", "append", "append_close"} =>
          /\ Len(TrialCalls) = 5 * trial + 5
          /\ ~Keyed
          /\ Len(fsData[TempName].rows) = trial
    /\ (mode0 = "trial" /\ InCapture) =>
          Len(scorerCalls) = IF pc \in {"append", "append_close"}
                             THEN trial + 1 ELSE trial

\* C26 witness: the second trial of a trial-mode run is being scored
C26_Witness ==
    /\ pc = "append"
    /\ trial = 1
    /\ mode0 = "trial"
    /\ Len(TrialCalls) = 10
    /\ Len(scorerCalls) = 2
    /\ ~Keyed

\* the calls of progress_update made by the measurement loop
TestProgress == SelectSeq(progCalls, LAMBDA c : c.type = "test")

\* C27: during capture progress_update is called once per trial, before
\* the trial keys the channel, with the number of trials and the 0-based
\* index of the trial; a False return ends the run only there, so every
\* trial that keyed the channel has its row when the run is cancelled
C27_ProgressPerTrial ==
    /\ InCapture =>
          /\ Len(TestProgress) = IF pc = "progress" THEN trial ELSE trial + 1
          /\ \A i \in 1..Len(TestProgress) :
                /\ TestProgress[i].total = trials
                /\ TestProgress[i].current = i - 1
                /\ TestProgress[i].go
          /\ CountCalls("ptt_on") = IF pc \in {"progress", "ptt_on"}
                                    THEN trial ELSE trial + 1
          /\ cancelAt = -1
    /\ cancelAt >= 0 =>
          /\ ~TestProgress[Len(TestProgress)].go
          /\ TestProgress[Len(TestProgress)].current = cancelAt
          /\ Len(TestProgress) = cancelAt + 1
          /\ CountCalls("ptt_on") = cancelAt
          /\ CountCalls("ptt_off") = cancelAt
          /\ Len(played) = cancelAt
          /\ pc = "cleanup" => Len(fsData[TempName].rows) = cancelAt

\* C27 witness: a run cancelled at its second trial, with one row written
C27_Witness ==
    /\ pc = "cleanup"
    /\ cancelAt = 1
    /\ Len(TestProgress) = 2
    /\ CountCalls("ptt_on") = 1
    /\ Len(fsData[TempName].rows) = 1

\* post_process, called by the aggregate cleanup of run(), raised
AggregatePassFailed ==
    /\ ppRet = "agg_remove"
    /\ pc \in {"finally", "aborted"}
    /\ CountCalls("led_off") = IF cancelAt >= 0 THEN 1 ELSE 0

\* C28: in the aggregate cleanup the temp file is removed only after
\* post_process has returned; while post_process runs and after it has
\* failed at a row the temp file is there with every captured row
C28_TempOutlivesFailure ==
    mode0 = "aggregate" =>
        /\ (ppRet = "agg_remove" /\ pc \in {"pp_open", "pp_row", "agg_remove"}) =>
              (TempName \in fsExists /\ HoldsTrials(fsData[TempName], Len(played)))
        /\ AggregatePassFailed =>
              (TempName \in fsExists /\ HoldsTrials(fsData[TempName], Len(played)))
        /\ (logPre /\ pc \notin {"led_on", "header"} /\ TempName \notin fsExists) =>
              /\ ~AggregatePassFailed
              /\ DataName \in fsExists
              /\ wopen # DataName
              /\ HoldsTrials(fsData[DataName], Len(played))

\* C28 witness: post_process failed at the second row of an aggregate run
C28_Witness ==
    /\ mode0 = "aggregate"
    /\ AggregatePassFailed
    /\ ppn = 1
    /\ Len(played) = 2
    /\ Len(fsData[TempName].rows) = 2
    /\ Len(fsData[DataName].rows) = 1

\* C29: in trial and none mode the final CSV is the write-ahead file,
\* moved and never written again; the summary pass of trial mode writes to
\* the null device only
C29_FinalIsMovedTemp ==
    mode0 \in {"trial", "none"} =>
        /\ wopen # DataName
        /\ DataName \in fsExists =>
              /\ TempName \notin fsExists
              /\ HoldsTrials(fsData[DataName], Len(played))
        /\ (InRun /\ pc \in {"pp_open", "pp_row"}) =>
              /\ mode0 = "trial"
              /\ ppFname = DevNull
              /\ intell_est = "none"

\* C29 witness: the summary pass of a trial-mode run has handled both rows
\* and the final file holds them
C29_Witness ==
    /\ mode0 = "trial"
    /\ InRun
    /\ pc = "pp_row"
    /\ ppn = 2
    /\ wopen = DevNull
    /\ Len(fsData[DataName].rows) = 2

\* C24 as claimed: run() returns the name of the output .csv file, a
\* string, which a caller can hand to evaluate() as a test name
C24_ReturnsFileName ==
    pc = "done" => RunReturn = PyStr(<<"c", "a", "p", "t", "u", "r", "e">>)

\* text of the score the scorer gives for the recording of row i (1-based)
FreshScoreText(i) == <<Digits[ExpScore(i - 1) + 1], ".">>

C23_AudioRetention ==
    /\ txWritten => (save_audio /\ save_tx_audio)
    /\ (pc = "done" /\ mode0 = "aggregate" /\ ~save_audio) => DOMAIN wavs = {}

\* C21: when the first bootstrap call of eval raises the floating point
\* error, eval does not raise: it warns, calls the bootstrap exactly once
\* more, with method percentile and the same confidence level, and returns
\* the mean of the column with that second interval; when the first call
\* succeeds there is one call only and no warning
C21_PercentileFallback ==
    libOp = "eval" =>
        /\ libIn.first.ty = "raise" =>
              /\ ~libOut.raised
              /\ libOut.warned
              /\ Len(libOut.boot) = 2
              /\ libOut.boot[1] = [p |-> libIn.p, method |-> libIn.method]
              /\ libOut.boot[2] = [p |-> libIn.p, method |-> "percentile"]
              /\ libOut.mean.den = Len(libIn.data) * ScoreDen
              /\ libOut.mean.num = SumN(libIn.data)
              /\ libOut.ci = libIn.second
        /\ libIn.first.ty = "ci" =>
              /\ ~libOut.raised
              /\ ~libOut.warned
              /\ Len(libOut.boot) = 1
              /\ libOut.ci = libIn.first.v

\* a column of two identical scores, level 90: the studentized call raised
\* and the interval handed back is the one of the percentile call
C21_Witness ==
    /\ libOp = "eval"
    /\ libIn.first.ty = "raise"
    /\ libIn.p = 90
    /\ Len(libIn.data) = 2
    /\ libIn.data[1] = libIn.data[2]
    /\ libOut.warned
    /\ libOut.ci = <<0, ScoreDen>>

\* C33 as claimed: run() leaves the scoring mode of the object as it found
\* it: when run() returns, intell_est is the mode it was called with
C33_ModeUnchanged ==
    pc = "done" => intell_est = mode0

\* C34 as claimed: whenever run() has ended, by return or by an error, the
\* channel is not keyed: the last ptt call was ptt(False), or none was made
C34_KeyInactiveAtEnd ==
    pc \in {"done", "aborted"} => ~Keyed

\* number of trials the schedule gives to clip c
TimesScheduled(c) == Cardinality({i \in 1..Len(clipi) : clipi[i] = c})

\* C36: the schedule run() draws has one entry per trial, every entry is
\* the index of a loaded clip, and each of the M clips is scheduled
\* floor(N/M) or ceil(N/M) times in N trials; each trial plays the clip the
\* schedule names
C36_BalancedSchedule ==
    /\ clipi # << >> =>
          /\ \A i \in 1..Len(clipi) : clipi[i] \in 0..(nclips - 1)
          /\ \A c \in 0..(nclips - 1) :
                TimesScheduled(c) \in {Len(clipi) \div nclips,
                                       (Len(clipi) + nclips - 1) \div nclips}
    /\ (pc \in {"led_on", "header"} \/ InCapture) => Len(clipi) = trials
    /\ pc = "ptt_off" => CurRxName \in DOMAIN wavs
    /\ InCapture =>
          \A i \in 1..Len(fsData[TempName].rows) :
              fsData[TempName].rows[i][2] = ClipName(clipi[i])

\* C36 witness: two trials on two clips, the second clip scheduled first,
\* and both rows captured
C36_Witness ==
    /\ pc = "cleanup"
    /\ nclips = 2
    /\ clipi = <<1, 0>>
    /\ Len(fsData[TempName].rows) = 2
    /\ TimesScheduled(0) = 1
    /\ TimesScheduled(1) = 1

\* the scorer calls made by the run() that has returned
ScorerCallsOfRun ==
    CASE mode0 = "aggregate" -> 1
      [] mode0 = "trial"     -> Len(played)
      [] OTHER               -> 0

\* post_process of the reprocessing has opened its output
ReprocPass == ppRet = "rp_done" /\ ppFname = OutName

\* C31: post_process in none mode reads no audio and calls no scorer, so
\* it cannot fail at a row that has its channels; every row it writes has
\* the declared columns of the input row, the channels written again by
\* chans_to_string; it returns the guess correction of the mean of the
\* Intelligibility values of the input rows
C31_NonePassThrough ==
    (ReprocPass /\ intell_est = "none") =>
        /\ Len(scorerCalls) = ScorerCallsOfRun
        /\ pc = "rp_aborted" =>
              (ppn < Len(test_dat) /\ "channels" \notin DOMAIN test_dat[ppn + 1])
        /\ pc \in {"pp_row", "rp_done"} =>
              \A i \in 1..ppn :
                  LET out == (IF pc = "rp_done" THEN fsData[OutName] ELSE wbuf).rows[i]
                      in  == fsData[DataName].rows[i]
                  IN  /\ Len(out) = 6
                      /\ out[1] = in[1]
                      /\ out[2] = in[2]
                      /\ out[3] = chans_to_string(parse_audio_chans(in[3])).v
                      /\ ParseInt(out[4]) = ParseInt(in[4])
                      /\ ParseInt(out[5]) = ParseInt(in[5])
                      /\ ParseFloat(out[6]) = ParseFloat(in[6])
        /\ pc = "rp_done" =>
              /\ ppn = Len(fsData[DataName].rows)
              /\ Len(fsData[OutName].rows) = ppn
              /\ ret = guess_correction(
                           Mean([i \in 1..ppn |->
                                    ParseFloat(fsData[DataName].rows[i][6])]))

\* C31 witness: the file of a trial-mode run of two trials, whose rows
\* carry scores, went through post_process in none mode, which returned a
\* defined estimate
C31_Witness ==
    /\ ReprocPass
    /\ intell_est = "none"
    /\ pc = "rp_done"
    /\ mode0 = "trial"
    /\ Len(fsData[OutName].rows) = 2
    /\ ret.den > 0
    /\ ret.num > 0
    /\ Len(scorerCalls) = 2

\* the reprocessing pass writes over the data file it was loaded from
InPlacePass == ppRet = "rp_done" /\ ppFname = DataName

\* C32: when the reprocess output is the input data file, every row of
\* the file has been loaded before the file is opened for writing, so that
\* while it is open, and truncated, the rows are all in memory, and a pass
\* that completes leaves a file with one row per row of the input, in
\* order
C32_InPlaceSafe ==
    InPlacePass =>
        /\ pc \in {"pp_open", "pp_row", "rp_done"} =>
              /\ Len(test_dat) = Len(played)
              /\ \A i \in 1..Len(test_dat) :
                    /\ test_dat[i]["Timestamp"] = PyStr(TimeText(i - 1))
                    /\ test_dat[i]["Filename"] = PyStr(ClipName(clipi[i]))
        /\ pc = "pp_open" =>
              (wopen = "none" /\ HoldsTrials(fsData[DataName], Len(played)))
        /\ pc = "pp_row" => wopen = DataName
        /\ pc = "rp_done" =>
              /\ wopen = "none"
              /\ Len(fsData[DataName].rows) = Len(played)
              /\ \A i \in 1..Len(played) :
                    LET out == fsData[DataName].rows[i]
                    IN  /\ out[1] = TimeText(i - 1)
                        /\ out[2] = ClipName(clipi[i])
                        /\ out[3] = ExpChanText
                        /\ out[4] = <<"0">>
                        /\ out[5] = <<"0">>
                        /\ intell_est # "trial" =>
                              ParseFloat(out[6]) = ParseFloat(ExpScoreText(i - 1))

\* C32 witness: the file of a two-trial run was reprocessed onto itself
\* and holds its two rows
C32_Witness ==
    /\ InPlacePass
    /\ pc = "rp_done"
    /\ Len(played) = 2
    /\ Len(fsData[DataName].rows) = 2
    /\ fsData[DataName].rows[2][1] = TimeText(1)

\* the file post_process writes to, as far as it is on disk or buffered
Written ==
    IF wopen = ppFname
    THEN [hdr |-> wbuf.hdr, rows |-> fsData[ppFname].rows \o wbuf.rows]
    ELSE fsData[ppFname]

\* row i of the output is made from row i of the input and has the six
\* declared columns only
OutputOfInput(out, in) ==
    /\ Len(out) = Len(data_fields)
    /\ out[1] = in["Timestamp"].v
    /\ out[2] = in["Filename"].v
    /\ ~IsErr(parse_audio_chans(out[3]))
    /\ out[4] = IntToStr(in["Over_runs"].v)
    /\ out[5] = IntToStr(in["Under_runs"].v)
    /\ ~IsErr(ParseFloat(out[6]))

\* C35: in every mode a post_process that completes has written the
\* header and one row per input row, in input order, each with the
\* declared columns only, whatever other columns the input has; one that
\* fails at row j leaves the header and the rows before j
C35_RowPerRow ==
    (ppRet \in {"rp_done", "agg_remove"} /\ ppFname # "none") =>
        /\ pc = "pp_row" =>
              /\ Written.hdr = HeaderNames
              /\ Len(Written.rows) = ppn
        /\ pc \in {"rp_done", "agg_remove"} =>
              /\ wopen = "none"
              /\ ppn = Len(test_dat)
        /\ pc \in {"rp_done", "agg_remove", "rp_aborted"} =>
              /\ fsData[ppFname].hdr = HeaderNames
              /\ Len(fsData[ppFname].rows) = ppn
              /\ \A i \in 1..ppn :
                    OutputOfInput(fsData[ppFname].rows[i], test_dat[i])
        /\ AggregatePassFailed =>
              /\ fsData[DataName].hdr = HeaderNames
              /\ Len(fsData[DataName].rows) = ppn
              /\ \A i \in 1..ppn :
                    OutputOfInput(fsData[DataName].rows[i], test_dat[i])

\* C35 witness: two rows with an undeclared column went through
\* post_process, which wrote two rows of six cells
C35_Witness ==
    /\ pc = "rp_done"
    /\ ppFname = OutName
    /\ Len(test_dat) = 2
    /\ "Extra" \in DOMAIN test_dat[1]
    /\ "Extra" \in DOMAIN test_dat[2]
    /\ Len(fsData[OutName].rows) = 2
    /\ Len(fsData[OutName].rows[2]) = 6

\* the calls of progress_update made by post_process
ProcCalls == SelectSeq(progCalls, LAMBDA c : c.type = "proc")

\* the calls made by the pass of run() that came before the reprocessing
ProcCallsBefore ==
    IF InRun \/ mode0 = "none" THEN 0 ELSE Len(played)

\* C38: post_process calls progress_update once per row, with 'proc', the
\* number of rows and the 0-based index of the row, in order, and goes on
\* to the last row whatever the callback returns
C38_ProcProgress ==
    /\ pc \in {"pp_row", "agg_remove", "rp_done"} =>
          /\ Len(ProcCalls) = ProcCallsBefore + ppn
          /\ \A i \in 1..ppn :
                /\ ProcCalls[ProcCallsBefore + i].current = i - 1
                /\ ProcCalls[ProcCallsBefore + i].total = Len(test_dat)
    /\ pc \in {"agg_remove", "rp_done"} =>
          /\ ppn = Len(test_dat)
          /\ Len(fsData[ppFname].rows) = Len(test_dat)
    /\ (pc = "led_off" /\ mode0 = "trial") => ppn = Len(played)

\* C38 witness: the callback returned False at the first of two rows and
\* both rows were written
C38_Witness ==
    /\ pc = "rp_done"
    /\ Len(test_dat) = 2
    /\ Len(ProcCalls) >= 2
    /\ ~ProcCalls[Len(ProcCalls) - 1].go
    /\ ProcCalls[Len(ProcCalls) - 1].current = 0
    /\ Len(fsData[OutName].rows) = 2

\* C37 as claimed: for a csv with the declared columns and a value in
\* every cell, load_test_data and post_process in none mode write a file
\* that loads to the same rows as the input, and doing the same to that
\* file writes it again unchanged
C37_NonePassIdempotent ==
    (libOp = "reprocess_none" /\ ~IsErr(libOut.loaded1)) =>
        /\ ~IsErr(libOut.loaded2)
        /\ libOut.loaded2 = libOut.loaded1
        /\ libOut.line2 = libOut.line1

\* C39 as claimed: the test names and paths of evaluate(json_data =
\* e.to_json()) are those of e, one by one and in order, also when two
\* tests have the same base name
C39_JsonKeepsTests ==
    libOp = "json" =>
        /\ libOut.test_names = libIn.test_names
        /\ libOut.full_paths = libIn.full_paths
====
